---- MODULE Spec2Model ----
(***************************************************************************)
(* Model of the correlation logic of the CS2 demo parser:                  *)
(*   - DemoParser._extract_rounds        (extractors/core.py)              *)
(*   - GrenadeExtractor._extract_flashbangs / _extract_he_grenades         *)
(*                                        (extractors/grenades.py)         *)
(* Every extractor is a loop over the rows of a table; the model keeps the *)
(* loop index, the partial result list and the tables the loop reads, and  *)
(* takes one step per loop iteration.                                      *)
(***************************************************************************)
EXTENDS Integers, Sequences, FiniteSets, TLC

(* ------------------------------ bounds -------------------------------- *)
MaxStarts == 2
MaxEnds == 2
MaxTick == 2
MaxPlants == 2
MaxDets == 2
MaxBlinds == 2
MaxHurts == 2
MaxGRows == 2
MaxEvRows == 2
MaxMatrixRows == 2
MaxTotalTicks == 5
MaxChunkSize == 3
MaxWrites == 2
MaxCalls == 3
MaxFailures == 1
MaxRequests == 3

(* --------------------------- program constants ------------------------ *)
TEAM_T == 2
TEAM_CT == 3
SITE_A == 111
SITE_B == 112
PISTOL_FIRST == 1
PISTOL_SECOND == 13
FLASH_WINDOW == 10
HE_WINDOW == 5
BATCH_SIZE == 1000

\* A missing value of an integer column (pandas NaN / Python None).
NA == 0 - 1

(* ------------------------------ input sets ---------------------------- *)
Ticks == 0 .. MaxTick
Winners == {"CT", "T", ""}
\* Values of the "round" column of round_start rows, when the column exists.
RoundNums == {PISTOL_FIRST, PISTOL_SECOND, 2 * PISTOL_SECOND - 1}
\* A site value is a number (the game's site code) or a raw string.
SiteVals == [num : {TRUE}, code : {SITE_A, SITE_B, 0}, raw : {""}]
            \cup [num : {FALSE}, code : {NA}, raw : {"BombsiteA"}]
Teams == {0, TEAM_T, TEAM_CT}
EntityIds == {0, 42, 99}
DetTicks == {1, 2}
BlindTicks == {0, 1, FLASH_WINDOW + 1, FLASH_WINDOW + 2}
HurtTicks == {0, 1, HE_WINDOW + 1, HE_WINDOW + 2}
Weapons == {"hegrenade", "ak47"}
\* Ticks and weapons of the rows of the grenade event tables.
GTicks == {0, 1}
FireWeapons == {"weapon_smokegrenade", "weapon_incgrenade", "weapon_ak47"}

SeqsUpTo(S, n) == UNION {[1 .. k -> S] : k \in 0 .. n}

Min(S) == CHOOSE x \in S : \A y \in S : x <= y

VARIABLES
    \* _extract_rounds: the event tables and the loop state
    round_starts, round_ends, has_round, bomb_plants, bomb_defuses,
    bomb_explosions, rpc, ri, rounds, ct_score, t_score, rounds_warning,
    \* _extract_flashbangs
    detonate_df, blind_df, blind_has_entity, fpc, fi, flashes,
    \* extract_flash_effectiveness: the list it returns
    flash_data,
    \* _extract_he_grenades
    he_detonate_df, hurt_df, hpc, hi, he_grenades,
    \* extract_all_grenades: what parse_event returns per event name, the
    \* position in the method, its list, and the extractions that raised
    event_tables, apc, grenades, failed,
    \* get_grenade_summary: the dict it returns
    summary,
    \* _extract_events: the event names asked for, the table of each name, the
    \* position in the two loops, the list, the names whose except clause ran,
    \* and the last call of _enrich_event (the dict passed, before and after)
    event_names, event_df, epc, en, er, events, extraction_failed, enrich_call,
    \* extract_damage_matrix: the player_hurt table (or its absence), the loop
    \* state and the nested dict
    player_hurt_df, player_hurt_missing, mpc, mi, damage_matrix,
    \* parse_streaming: the demo (its file, its chat, its tick table and
    \* whether parse_ticks raises), the chunk size, the generator's position
    \* and locals, and the chunks yielded so far
    demo_exists, chat_present, tick_rows, ticks_raise, chunk_size, spc,
    all_ticks, num_chunks, ti, emitted,
    \* generate() of /parse/stream around it: the state of the generator, the
    \* uploaded temporary file, and the extractions that queried the row source
    gen, tmp_exists, queries,
    \* NDJSONWriter and stream_to_bytes: whether the writer is in use, whether
    \* its file is open, the lines in the file, the byte strings streamed, the
    \* calls made so far and whether one raised
    wpc, file_open, file_lines, streamed, writes, writer_raised,
    \* JSONWriter: the buffer _chunks, the output file, and the calls made
    json_chunks, json_file, json_calls,
    \* parse: the demo (whether its file exists, what each query does), the
    \* position in the method and the document being assembled
    demo, ppc, parsed,
    \* api.py: the dict parse_jobs, and the background tasks (those added and
    \* not started, the one running, the requests served so far)
    parse_jobs, background

roundVars == <<round_starts, round_ends, has_round, bomb_plants, bomb_defuses,
               bomb_explosions, rpc, ri, rounds, ct_score, t_score,
               rounds_warning>>
flashVars ==
    <<detonate_df, blind_df, blind_has_entity, fpc, fi, flashes, flash_data>>
heVars == <<he_detonate_df, hurt_df, hpc, hi, he_grenades>>
allVars == <<event_tables, apc, grenades, failed, summary>>
\* The state of the components modelled after the three extractor loops.
evVars == <<event_names, event_df, epc, en, er, events, extraction_failed,
            enrich_call>>
matrixVars == <<player_hurt_df, player_hurt_missing, mpc, mi, damage_matrix>>
streamVars == <<demo_exists, chat_present, tick_rows, ticks_raise, chunk_size,
                spc, all_ticks, num_chunks, ti, emitted, gen, tmp_exists,
                queries>>
ndjsonVars == <<wpc, file_open, file_lines, streamed, writes, writer_raised>>
jsonVars == <<json_chunks, json_file, json_calls>>
writerVars == <<ndjsonVars, jsonVars>>
parseVars == <<demo, ppc, parsed>>
jobVars == <<parse_jobs, background>>
laterVars ==
    <<allVars, evVars, matrixVars, streamVars, writerVars, parseVars, jobVars>>
notAllVars ==
    <<roundVars, flashVars, heVars, evVars, matrixVars, streamVars, writerVars,
      parseVars, jobVars>>
notEvVars ==
    <<roundVars, flashVars, heVars, allVars, matrixVars, streamVars, writerVars,
      parseVars, jobVars>>
notMatrixVars ==
    <<roundVars, flashVars, heVars, allVars, evVars, streamVars, writerVars,
      parseVars, jobVars>>
notStreamVars ==
    <<roundVars, flashVars, heVars, allVars, evVars, matrixVars, writerVars,
      parseVars, jobVars>>
notWriterVars ==
    <<roundVars, flashVars, heVars, allVars, evVars, matrixVars, streamVars,
      parseVars, jobVars>>
notParseVars ==
    <<roundVars, flashVars, heVars, allVars, evVars, matrixVars, streamVars,
      writerVars, jobVars>>
notJobVars ==
    <<roundVars, flashVars, heVars, allVars, evVars, matrixVars, streamVars,
      writerVars, parseVars>>
vars == <<roundVars, flashVars, heVars, laterVars>>

(* ====================================================================== *)
(*                       DemoParser._extract_rounds                        *)
(* ====================================================================== *)

\* round_ends[round_ends["tick"] > start_tick]: the rows kept, in input order.
MatchingEnds_Mut(ends, start_tick) ==
    SelectSeq(ends, LAMBDA e : e.tick >= start_tick)
MatchingEnds(ends, start_tick) ==
    SelectSeq(ends, LAMBDA e : e.tick > start_tick)

\* winner_team = 3 if winner_str == "CT" else (2 if winner_str == "T" else 0)
WinnerTeam_Mut(winner_str) ==
    IF winner_str = "CT" THEN TEAM_T ELSE IF winner_str = "T" THEN TEAM_CT ELSE 0
WinnerTeam(winner_str) ==
    IF winner_str = "CT" THEN TEAM_CT ELSE IF winner_str = "T" THEN TEAM_T ELSE 0

\* if winner_team == 3: ct_score += 1 / elif winner_team == 2: t_score += 1
UpdateScores_Mut(ct, t, winner_team) ==
    IF winner_team = TEAM_CT THEN [ct |-> 1, t |-> t]
    ELSE IF winner_team = TEAM_T THEN [ct |-> ct, t |-> t + 1]
    ELSE [ct |-> ct, t |-> t]
UpdateScores(ct, t, winner_team) ==
    IF winner_team = TEAM_CT THEN [ct |-> ct + 1, t |-> t]
    ELSE IF winner_team = TEAM_T THEN [ct |-> ct, t |-> t + 1]
    ELSE [ct |-> ct, t |-> t]

\* tbl[(tbl["tick"] > start_tick) & (tbl["tick"] <= end_tick)]
InRound_Mut(tbl, start_tick, end_tick) ==
    SelectSeq(tbl, LAMBDA r : r.tick >= start_tick /\ r.tick < end_tick)
InRound(tbl, start_tick, end_tick) ==
    SelectSeq(tbl, LAMBDA r : r.tick > start_tick /\ r.tick <= end_tick)

\* bomb_site from the first plant row's site value
BombSite(site_val) ==
    IF site_val.num
    THEN (IF site_val.code = SITE_A THEN "A" ELSE "B")
    ELSE site_val.raw

\* is_pistol = round_num in [1, 13]
IsPistol_Mut(round_num) == round_num = PISTOL_FIRST
IsPistol(round_num) == round_num \in {PISTOL_FIRST, PISTOL_SECOND}

\* The RoundInfo built by one iteration of the loop.
RoundInfo(round_num, start_tick, end_row, scores) ==
    LET end_tick == end_row.tick
        round_plants == InRound(bomb_plants, start_tick, end_tick)
        round_defuses == InRound(bomb_defuses, start_tick, end_tick)
        round_explosions == InRound(bomb_explosions, start_tick, end_tick)
        planted == Len(round_plants) > 0
    IN  [round_number |-> round_num,
         start_tick |-> start_tick,
         end_tick |-> end_tick,
         winner_team |-> WinnerTeam(end_row.winner),
         ct_score |-> scores.ct,
         t_score |-> scores.t,
         is_pistol_round |-> IsPistol(round_num),
         bomb_planted |-> planted,
         bomb_plant_tick |-> IF planted THEN round_plants[1].tick ELSE NA,
         bomb_site |-> IF planted THEN BombSite(round_plants[1].site) ELSE "None",
         bomb_defused |-> Len(round_defuses) > 0,
         bomb_exploded |-> Len(round_explosions) > 0]

\* Lines 315-334: the tables are fetched; an empty round_start or round_end
\* table returns the empty list at once.
RoundsBegin ==
    /\ rpc = "start"
    /\ IF Len(round_starts) = 0
       THEN rpc' = "done" /\ rounds_warning' = "No round_start events found"
       ELSE IF Len(round_ends) = 0
       THEN rpc' = "done" /\ rounds_warning' = "No round_end events found"
       ELSE rpc' = "loop" /\ rounds_warning' = ""
    /\ ri' = 1
    /\ rounds' = <<>>
    /\ ct_score' = 0
    /\ t_score' = 0
    /\ UNCHANGED <<round_starts, round_ends, has_round, bomb_plants,
                   bomb_defuses, bomb_explosions>>
    /\ UNCHANGED <<flashVars, heVars, laterVars>>

\* Lines 337-429: one iteration of the loop over round_starts.  ri is the
\* 1-based position of the row, so enumerate()'s i + 1 is ri.
RoundsIter ==
    /\ rpc = "loop"
    /\ ri <= Len(round_starts)
    /\ LET start_row == round_starts[ri]
           round_num == IF has_round THEN start_row.round ELSE ri
           start_tick == start_row.tick
           matching_ends == MatchingEnds(round_ends, start_tick)
       IN  IF start_tick = NA
           THEN \* int() of a missing tick raises; the handler at 431 logs and
                \* the function returns what it has
                /\ rpc' = "done"
                /\ rounds_warning' = "Failed to extract round info"
                /\ UNCHANGED <<ri, rounds, ct_score, t_score>>
           ELSE IF Len(matching_ends) = 0
           THEN \* continue
                /\ ri' = ri + 1
                /\ UNCHANGED <<rpc, rounds_warning, rounds, ct_score, t_score>>
           ELSE LET end_row == matching_ends[1]
                    scores == UpdateScores(ct_score, t_score,
                                           WinnerTeam(end_row.winner))
                IN  /\ ct_score' = scores.ct
                    /\ t_score' = scores.t
                    /\ rounds' = Append(rounds,
                                   RoundInfo(round_num, start_tick, end_row, scores))
                    /\ ri' = ri + 1
                    /\ UNCHANGED <<rpc, rounds_warning>>
    /\ UNCHANGED <<round_starts, round_ends, has_round, bomb_plants,
                   bomb_defuses, bomb_explosions>>
    /\ UNCHANGED <<flashVars, heVars, laterVars>>

\* Line 434: the loop is exhausted, return rounds.
RoundsReturn ==
    /\ rpc = "loop"
    /\ ri > Len(round_starts)
    /\ rpc' = "done"
    /\ UNCHANGED <<round_starts, round_ends, has_round, bomb_plants,
                   bomb_defuses, bomb_explosions, ri, rounds, ct_score,
                   t_score, rounds_warning>>
    /\ UNCHANGED <<flashVars, heVars, laterVars>>

RoundsNext == RoundsBegin \/ RoundsIter \/ RoundsReturn


(* ====================================================================== *)
(*                  GrenadeExtractor._extract_flashbangs                   *)
(* ====================================================================== *)

\* Lines 173-177: "attacker_entity_id" in blind_df.columns if not
\* blind_df.empty else False
HasEntityLinking(blinds, has_col) ==
    IF Len(blinds) > 0 THEN has_col ELSE FALSE

\* A boolean-mask selection keeps the selected rows in table order: the row
\* labels of the set S, ascending.
RECURSIVE Ascending(_)
Ascending(S) ==
    IF S = {} THEN <<>> ELSE <<Min(S)>> \o Ascending(S \ {Min(S)})

\* Lines 188-198: matching_blinds, as the row labels of blind_df it keeps.
MatchingBlinds_NoEntity(blinds, linking, flash_tick, flash_entity_id) ==
    Ascending({k \in 1 .. Len(blinds) :
                  /\ blinds[k].tick >= flash_tick
                  /\ blinds[k].tick <= flash_tick + FLASH_WINDOW})
MatchingBlinds_Open(blinds, linking, flash_tick, flash_entity_id) ==
    IF linking /\ flash_entity_id > 0
    THEN Ascending({k \in 1 .. Len(blinds) :
                       blinds[k].attacker_entity_id = flash_entity_id})
    ELSE Ascending({k \in 1 .. Len(blinds) :
                       /\ blinds[k].tick >= flash_tick
                       /\ blinds[k].tick < flash_tick + FLASH_WINDOW})
MatchingBlinds(blinds, linking, flash_tick, flash_entity_id) ==
    IF linking /\ flash_entity_id > 0
    THEN Ascending({k \in 1 .. Len(blinds) :
                       blinds[k].attacker_entity_id = flash_entity_id})
    ELSE Ascending({k \in 1 .. Len(blinds) :
                       /\ blinds[k].tick >= flash_tick
                       /\ blinds[k].tick <= flash_tick + FLASH_WINDOW})

\* Line 209 (and 275): is_enemy = victim_team != thrower_team and victim_team != 0
IsEnemy(victim_team, thrower_team) ==
    victim_team # thrower_team /\ victim_team # 0

\* Lines 205-217: the players_blinded entry of each matching row.
Blinded(blinds, matching, thrower_team) ==
    [k \in 1 .. Len(matching) |->
        [team |-> blinds[matching[k]].user_team,
         is_enemy |-> IsEnemy(blinds[matching[k]].user_team, thrower_team)]]

\* Lines 220-223: the two counters over the matching rows.
EnemiesBlinded(blinded) ==
    Cardinality({k \in 1 .. Len(blinded) : blinded[k].is_enemy})
TeammatesBlinded(blinded, thrower_team) ==
    Cardinality({k \in 1 .. Len(blinded) :
                    ~blinded[k].is_enemy /\ blinded[k].team = thrower_team})

\* Lines 169-177: both tables are fetched.
FlashBegin ==
    /\ fpc = "start"
    /\ fpc' = "loop"
    /\ fi' = 1
    /\ flashes' = <<>>
    /\ UNCHANGED <<detonate_df, blind_df, blind_has_entity, flash_data>>
    /\ UNCHANGED <<roundVars, heVars, laterVars>>

\* Lines 179-240: one iteration of the loop over detonate_df.
FlashIter ==
    /\ fpc = "loop"
    /\ fi <= Len(detonate_df)
    /\ LET row == detonate_df[fi]
           flash_tick == row.tick
           flash_entity_id == row.entityid
           thrower_team == row.user_team
           matching_blinds ==
               MatchingBlinds(blind_df,
                              HasEntityLinking(blind_df, blind_has_entity),
                              flash_tick, flash_entity_id)
           blinded == Blinded(blind_df, matching_blinds, thrower_team)
       IN  flashes' = Append(flashes,
               [tick |-> flash_tick,
                thrower_team |-> thrower_team,
                entity_id |-> flash_entity_id,
                matching_blinds |-> matching_blinds,
                players_blinded |-> blinded,
                enemies_blinded |-> EnemiesBlinded(blinded),
                teammates_blinded |-> TeammatesBlinded(blinded, thrower_team)])
    /\ fi' = fi + 1
    /\ UNCHANGED <<fpc, detonate_df, blind_df, blind_has_entity, flash_data>>
    /\ UNCHANGED <<roundVars, heVars, laterVars>>

\* Line 245: return flashes.
FlashReturn ==
    /\ fpc = "loop"
    /\ fi > Len(detonate_df)
    /\ fpc' = "done"
    /\ UNCHANGED <<fi, flashes, detonate_df, blind_df, blind_has_entity,
                   flash_data>>
    /\ UNCHANGED <<roundVars, heVars, laterVars>>

(* ====================================================================== *)
(*                  GrenadeExtractor._extract_he_grenades                  *)
(* ====================================================================== *)

\* Lines 261-265: nearby_damage, as the row labels of hurt_df it keeps.
NearbyDamage(hurts, he_tick) ==
    Ascending({k \in 1 .. Len(hurts) :
                  /\ hurts[k].tick >= he_tick
                  /\ hurts[k].tick <= he_tick + HE_WINDOW
                  /\ hurts[k].weapon = "hegrenade"})

\* Lines 271-283: the players_damaged entry of each nearby row.
Damaged(hurts, nearby, thrower_team) ==
    [k \in 1 .. Len(nearby) |->
        [team |-> hurts[nearby[k]].user_team,
         damage |-> hurts[nearby[k]].dmg_health,
         is_enemy |-> IsEnemy(hurts[nearby[k]].user_team, thrower_team)]]

RECURSIVE TotalDamage(_)
TotalDamage(damaged) ==
    IF damaged = <<>> THEN 0
    ELSE damaged[1].damage + TotalDamage(Tail(damaged))

\* Lines 252-253: both tables are fetched.
HeBegin ==
    /\ hpc = "start"
    /\ hpc' = "loop"
    /\ hi' = 1
    /\ he_grenades' = <<>>
    /\ UNCHANGED <<he_detonate_df, hurt_df>>
    /\ UNCHANGED <<roundVars, flashVars, laterVars>>

\* Lines 255-303: one iteration of the loop over detonate_df.
HeIter ==
    /\ hpc = "loop"
    /\ hi <= Len(he_detonate_df)
    /\ LET row == he_detonate_df[hi]
           he_tick == row.tick
           thrower_team == row.user_team
           nearby_damage == NearbyDamage(hurt_df, he_tick)
           damaged == Damaged(hurt_df, nearby_damage, thrower_team)
       IN  he_grenades' = Append(he_grenades,
               [tick |-> he_tick,
                thrower_team |-> thrower_team,
                nearby_damage |-> nearby_damage,
                players_damaged |-> damaged,
                total_damage |-> TotalDamage(damaged),
                enemies_damaged |->
                    Cardinality({k \in 1 .. Len(damaged) : damaged[k].is_enemy})])
    /\ hi' = hi + 1
    /\ UNCHANGED <<hpc, he_detonate_df, hurt_df>>
    /\ UNCHANGED <<roundVars, flashVars, laterVars>>

\* Line 308: return he_grenades.
HeReturn ==
    /\ hpc = "loop"
    /\ hi > Len(he_detonate_df)
    /\ hpc' = "done"
    /\ UNCHANGED <<hi, he_grenades, he_detonate_df, hurt_df>>
    /\ UNCHANGED <<roundVars, flashVars, laterVars>>

GrenadesNext ==
    FlashBegin \/ FlashIter \/ FlashReturn \/ HeBegin \/ HeIter \/ HeReturn

(* ====================================================================== *)
(*               EventExtractor.extract_flash_effectiveness                *)
(* ====================================================================== *)

\* events.py lines 259-262: nearby_blinds, as the row labels of blind_df it
\* keeps.
NearbyBlinds(blinds, flash_tick) ==
    Ascending({k \in 1 .. Len(blinds) :
                  /\ blinds[k].tick >= flash_tick
                  /\ blinds[k].tick <= flash_tick + FLASH_WINDOW})

\* events.py lines 271-287: the players_blinded entry of each nearby row,
\* "is_enemy": victim_team != thrower_team.
BlindedPlayers(blinds, nearby, thrower_team) ==
    [k \in 1 .. Len(nearby) |->
        [is_enemy |-> blinds[nearby[k]].user_team # thrower_team]]

\* events.py lines 251-305, run on the tables _extract_flashbangs has read:
\* one entry per flashbang_detonate row; a nearby row counts as an enemy when
\* its team differs from the thrower's and as a teammate otherwise.
FlashEffectiveness ==
    /\ fpc = "done"
    /\ fpc' = "both"
    /\ flash_data' =
           [f \in 1 .. Len(detonate_df) |->
               LET flash_tick == detonate_df[f].tick
                   thrower_team == detonate_df[f].user_team
                   nearby_blinds == NearbyBlinds(blind_df, flash_tick)
                   blinded_players ==
                       BlindedPlayers(blind_df, nearby_blinds, thrower_team)
               IN  [tick |-> flash_tick,
                    nearby_blinds |-> nearby_blinds,
                    players_blinded |-> blinded_players,
                    enemies_blinded |->
                        Cardinality({k \in 1 .. Len(nearby_blinds) :
                            blind_df[nearby_blinds[k]].user_team # thrower_team}),
                    teammates_blinded |->
                        Cardinality({k \in 1 .. Len(nearby_blinds) :
                            ~(blind_df[nearby_blinds[k]].user_team
                                  # thrower_team)})]]
    /\ UNCHANGED <<fi, flashes, detonate_df, blind_df, blind_has_entity>>
    /\ UNCHANGED <<roundVars, heVars, laterVars>>

LinkersNext == FlashBegin \/ FlashIter \/ FlashReturn \/ FlashEffectiveness

(* ====================================================================== *)
(*                  GrenadeExtractor.extract_all_grenades                  *)
(* ====================================================================== *)

\* The event names the grenade extractor asks the demo parser for.
GrenadeEventNames ==
    {"weapon_fire", "smokegrenade_detonate", "smokegrenade_expired",
     "flashbang_detonate", "player_blind", "hegrenade_detonate", "player_hurt",
     "molotov_detonate", "inferno_startburn", "inferno_expire",
     "decoy_started", "decoy_detonate"}

\* Lines 71-78: grenade_weapons.
GRENADE_WEAPONS ==
    {"weapon_smokegrenade", "weapon_flashbang", "weapon_hegrenade",
     "weapon_molotov", "weapon_incgrenade", "weapon_decoy"}

\* Lines 105-115: mapping.get(weapon, "unknown").
WeaponToGrenadeType(weapon) ==
    CASE weapon = "weapon_smokegrenade" -> "smoke"
      [] weapon = "weapon_flashbang" -> "flashbang"
      [] weapon = "weapon_hegrenade" -> "hegrenade"
      [] weapon = "weapon_molotov" -> "molotov"
      [] weapon = "weapon_incgrenade" -> "molotov"
      [] weapon = "weapon_decoy" -> "decoy"
      [] OTHER -> "unknown"

\* The "type" each loop writes into its events.
EventType(name, row) ==
    CASE name = "weapon_fire" -> WeaponToGrenadeType(row.weapon)
      [] name \in {"smokegrenade_detonate", "smokegrenade_expired"} -> "smoke"
      [] name = "flashbang_detonate" -> "flashbang"
      [] name = "hegrenade_detonate" -> "hegrenade"
      [] name = "molotov_detonate" -> "molotov"
      [] name \in {"inferno_startburn", "inferno_expire"} -> "inferno"
      [] OTHER -> "decoy"

\* int(row.get("tick", 0)) raises on a row whose tick is NaN.
Decodes(row) == row.tick # NA

\* A loop over the rows `labels` of a table raises at its first row that does
\* not decode; the rows before it have already been appended.
LoopRaises(labels, rows) ==
    \E k \in 1 .. Len(labels) : ~Decodes(rows[labels[k]])
Appended(labels, rows) ==
    IF LoopRaises(labels, rows)
    THEN Min({k \in 1 .. Len(labels) : ~Decodes(rows[labels[k]])}) - 1
    ELSE Len(labels)

\* for _, row in df.iterrows(): lst.append({...}); every event keeps the name
\* of its table and the label of its row.
LoopOver(src, name, event, labels, rows) ==
    [k \in 1 .. Appended(labels, rows) |->
        [src |-> src, table |-> name, row |-> labels[k],
         type |-> EventType(name, rows[labels[k]]),
         event |-> event, tick |-> rows[labels[k]].tick]]

AllRows(tbl) == [k \in 1 .. Len(tbl.rows) |-> k]

\* A nested "try: ... except Exception: pass" around one table and its loop.
NestedEvents(src, name, event, tbl) ==
    IF tbl.missing THEN <<>>
    ELSE LoopOver(src, name, event, AllRows(tbl), tbl.rows)
NestedRaises(tbl) == tbl.missing \/ LoopRaises(AllRows(tbl), tbl.rows)

\* Lines 58-103. The rows whose weapon is a grenade are selected first.
ExtractGrenadeThrows(tables) ==
    LET fire_df == tables["weapon_fire"]
        grenade_fires ==
            Ascending({k \in 1 .. Len(fire_df.rows) :
                          fire_df.rows[k].weapon \in GRENADE_WEAPONS})
    IN  IF fire_df.missing
        THEN [events |-> <<>>, raised |-> TRUE]
        ELSE [events |-> LoopOver("throws", "weapon_fire", "throw",
                                  grenade_fires, fire_df.rows),
              raised |-> LoopRaises(grenade_fires, fire_df.rows)]

\* Lines 117-158: the detonations, then (nested try) the expirations.
ExtractSmokes(tables) ==
    LET detonate_tbl == tables["smokegrenade_detonate"]
        expired_tbl == tables["smokegrenade_expired"]
        dets == LoopOver("smokes", "smokegrenade_detonate", "detonate",
                         AllRows(detonate_tbl), detonate_tbl.rows)
    IN  IF detonate_tbl.missing
        THEN [events |-> <<>>, raised |-> TRUE]
        ELSE IF LoopRaises(AllRows(detonate_tbl), detonate_tbl.rows)
        THEN [events |-> dets, raised |-> TRUE]
        ELSE [events |-> dets \o NestedEvents("smokes", "smokegrenade_expired",
                                              "expired", expired_tbl),
              raised |-> NestedRaises(expired_tbl)]

\* Lines 160-245 and 247-308: both tables are fetched before the loop over
\* the detonations; the effect fields of the events are left out here.
ExtractWithEffects(src, name, effect_name, tables) ==
    LET detonate_tbl == tables[name]
    IN  IF detonate_tbl.missing \/ tables[effect_name].missing
        THEN [events |-> <<>>, raised |-> TRUE]
        ELSE [events |-> LoopOver(src, name, "detonate",
                                  AllRows(detonate_tbl), detonate_tbl.rows),
              raised |-> LoopRaises(AllRows(detonate_tbl), detonate_tbl.rows)]
ExtractFlashbangs(tables) ==
    ExtractWithEffects("flashbangs", "flashbang_detonate", "player_blind", tables)
ExtractHeGrenades(tables) ==
    ExtractWithEffects("he_grenades", "hegrenade_detonate", "player_hurt", tables)

\* Lines 310-365: the detonations, then two nested tries, one per inferno table.
ExtractMolotovs(tables) ==
    LET detonate_tbl == tables["molotov_detonate"]
        start_tbl == tables["inferno_startburn"]
        expire_tbl == tables["inferno_expire"]
        dets == LoopOver("molotovs", "molotov_detonate", "detonate",
                         AllRows(detonate_tbl), detonate_tbl.rows)
    IN  IF detonate_tbl.missing
        THEN [events |-> <<>>, raised |-> TRUE]
        ELSE IF LoopRaises(AllRows(detonate_tbl), detonate_tbl.rows)
        THEN [events |-> dets, raised |-> TRUE]
        ELSE [events |->
                  dets
                  \o NestedEvents("molotovs", "inferno_startburn", "start", start_tbl)
                  \o NestedEvents("molotovs", "inferno_expire", "expire", expire_tbl),
              raised |-> NestedRaises(start_tbl) \/ NestedRaises(expire_tbl)]

\* Lines 367-404: two independent tries.
ExtractDecoys(tables) ==
    [events |->
         NestedEvents("decoys", "decoy_started", "started", tables["decoy_started"])
         \o NestedEvents("decoys", "decoy_detonate", "detonate",
                         tables["decoy_detonate"]),
     raised |-> NestedRaises(tables["decoy_started"])
                \/ NestedRaises(tables["decoy_detonate"])]

\* Line 54: grenades.sort(key=lambda x: x.get("tick", 0)). list.sort is a
\* stable sort; it is modelled as an insertion sort that places an element
\* after the elements whose key is not greater.
RECURSIVE InsertByTick_Mut(_, _), InsertByTick(_, _), SortByTick(_)
InsertByTick_Mut(sorted, e) ==
    IF sorted = <<>> THEN <<e>>
    ELSE IF sorted[Len(sorted)].tick < e.tick THEN Append(sorted, e)
    ELSE Append(InsertByTick_Mut(SubSeq(sorted, 1, Len(sorted) - 1), e),
                sorted[Len(sorted)])
InsertByTick(sorted, e) ==
    IF sorted = <<>> THEN <<e>>
    ELSE IF sorted[Len(sorted)].tick <= e.tick THEN Append(sorted, e)
    ELSE Append(InsertByTick(SubSeq(sorted, 1, Len(sorted) - 1), e),
                sorted[Len(sorted)])
SortByTick(lst) ==
    IF lst = <<>> THEN <<>>
    ELSE InsertByTick(SortByTick(SubSeq(lst, 1, Len(lst) - 1)), lst[Len(lst)])

\* grenades.extend(<result>) of one extraction, which may have raised inside.
Extend(result, src, next_pc) ==
    /\ grenades' = grenades \o result.events
    /\ failed' = IF result.raised THEN failed \cup {src} ELSE failed
    /\ apc' = next_pc
    /\ UNCHANGED <<event_tables, summary>>
    /\ UNCHANGED notAllVars

\* Lines 33-36.
AllThrows ==
    apc = "throws" /\ Extend(ExtractGrenadeThrows(event_tables), "throws", "smokes")
\* Line 39.
AllSmokes ==
    apc = "smokes" /\ Extend(ExtractSmokes(event_tables), "smokes", "flashbangs")
\* Line 42.
AllFlashbangs ==
    apc = "flashbangs"
    /\ Extend(ExtractFlashbangs(event_tables), "flashbangs", "he_grenades")
\* Line 45.
AllHeGrenades ==
    apc = "he_grenades"
    /\ Extend(ExtractHeGrenades(event_tables), "he_grenades", "molotovs")
\* Line 48.
AllMolotovs ==
    apc = "molotovs" /\ Extend(ExtractMolotovs(event_tables), "molotovs", "decoys")
\* Lines 51-56: the decoys are appended, the list is sorted and returned.
AllDecoys ==
    /\ apc = "decoys"
    /\ LET result == ExtractDecoys(event_tables)
       IN  /\ grenades' = SortByTick(grenades \o result.events)
           /\ failed' = IF result.raised THEN failed \cup {"decoys"} ELSE failed
    /\ apc' = "done"
    /\ UNCHANGED <<event_tables, summary>>
    /\ UNCHANGED notAllVars

\* Lines 414-419 and 431-432: an event adds one to the count of its type when
\* it is a "detonate" or a "started" event; the total is the sum of the counts.
\* (The events of this model carry no effect fields, so the three sums of
\* lines 421-428 are left out.)
CountedInSummary(g) == g.event = "detonate" \/ g.event = "started"
GetGrenadeSummary(lst) ==
    LET counted == {k \in 1 .. Len(lst) : CountedInSummary(lst[k])}
    IN  [total_grenades |-> Cardinality(counted),
         by_type |-> [t \in {lst[k].type : k \in counted} |->
                         Cardinality({k \in counted : lst[k].type = t})]]
NoSummary == [total_grenades |-> 0, by_type |-> <<>>]

\* Lines 406-436: get_grenade_summary, after its call of extract_all_grenades.
AllSummary ==
    /\ apc = "done"
    /\ summary' = GetGrenadeSummary(grenades)
    /\ apc' = "summarised"
    /\ UNCHANGED <<event_tables, grenades, failed>>
    /\ UNCHANGED notAllVars

AllNext ==
    \/ AllThrows \/ AllSmokes \/ AllFlashbangs \/ AllHeGrenades \/ AllMolotovs
    \/ AllDecoys \/ AllSummary

(* ====================================================================== *)
(*             EventExtractor._extract_events and _enrich_event            *)
(* ====================================================================== *)

\* A row is a dict: a function from the keys to values. A value is tagged
\* with its Python type; a key the dict does not hold has the value PyAbsent.
PyAbsent == [k |-> "absent", s |-> "", n |-> 0]
PyNone == [k |-> "none", s |-> "", n |-> 0]
PyNaN == [k |-> "nan", s |-> "", n |-> 0]
PyStr(x) == [k |-> "str", s |-> x, n |-> 0]
PyInt(x) == [k |-> "int", s |-> "", n |-> x]
PyBool(b) == [k |-> "bool", s |-> "", n |-> IF b THEN 1 ELSE 0]
\* A float that is the square root of x.
PySqrt(x) == [k |-> "sqrt", s |-> "", n |-> x]

CoordKeys ==
    {"attacker_X", "attacker_Y", "attacker_Z", "user_X", "user_Y", "user_Z"}
SteamidKeys == {"attacker_steamid", "user_steamid", "victim_steamid"}
EventKeys ==
    {"tick", "event_name", "attacker_team", "user_team", "victim_team",
     "distance", "is_suicide", "is_teamkill", "user_name", "victim_name",
     "hitgroup", "hitgroup_name", "health", "is_fatal",
     "reason", "reason_name", "winner", "winner_team_name"}
    \cup SteamidKeys \cup CoordKeys

\* key in event
Has(event, key) == event[key].k # "absent"
\* event.get(key): None when the key is not there.
Get(event, key) == IF Has(event, key) THEN event[key] ELSE PyNone
\* bool(value), for the values "a or b" is applied to.
Truthy(v) ==
    CASE v.k = "none" -> FALSE
      [] v.k = "str" -> v.s # ""
      [] v.k \in {"int", "bool", "sqrt"} -> v.n # 0
      [] OTHER -> TRUE
\* a or b
Or(a, b) == IF Truthy(a) THEN a ELSE b
\* a == b: values of different types are not equal, NaN equals nothing.
PyEq(a, b) == a.k # "nan" /\ a = b

\* int(v) raises on NaN, on None and on a string that is not a numeral; the
\* strings of the model are names ("head", "ct_killed"), never numerals.
IntRaises(v) == v.k \in {"nan", "none", "str"}
IntOf(v) == v.n
\* float(v) raises on None and on a string that is not a number; NaN is a float.
FloatRaises(v) == v.k \in {"none", "str"}

\* models/events.py: HITGROUP_NAMES.get(code, "unknown")
HitgroupName(code) ==
    CASE code = 0 -> "generic" [] code = 1 -> "head" [] code = 2 -> "chest"
      [] code = 3 -> "stomach" [] code = 4 -> "left_arm"
      [] code = 5 -> "right_arm" [] code = 6 -> "left_leg"
      [] code = 7 -> "right_leg" [] code = 8 -> "neck" [] code = 10 -> "gear"
      [] OTHER -> "unknown"
\* models/events.py: ROUND_END_REASONS.get(code, "unknown")
RoundEndReason(code) ==
    CASE code = 0 -> "target_bombed" [] code = 1 -> "bomb_defused"
      [] code = 4 -> "terrorists_win" [] code = 7 -> "counter_terrorists_win"
      [] code = 8 -> "terrorists_surrender"
      [] code = 9 -> "counter_terrorists_surrender" [] code = 10 -> "round_draw"
      [] code = 12 -> "hostages_rescued" [] code = 15 -> "all_hostages_rescued"
      [] code = 16 -> "target_saved" [] code = 17 -> "hostages_not_rescued"
      [] OTHER -> "unknown"

\* str(value), as the steamid normalisation applies it.
StrOf(v) ==
    CASE v.k = "str" -> v
      [] v.k = "int" -> PyStr(ToString(v.n))
      [] v.k = "nan" -> PyStr("nan")
      [] v.k = "none" -> PyStr("None")
      [] OTHER -> PyStr(IF v.n = 0 THEN "False" ELSE "True")

\* Lines 138-141: (dx**2 + dy**2 + dz**2) ** 0.5; NaN when a coordinate is.
Distance(event) ==
    IF \E key \in CoordKeys : event[key].k = "nan" THEN PyNaN
    ELSE LET dx == event["attacker_X"].n - event["user_X"].n
             dy == event["attacker_Y"].n - event["user_Y"].n
             dz == event["attacker_Z"].n - event["user_Z"].n
         IN  PySqrt(dx * dx + dy * dy + dz * dz)

\* Lines 112-119.
IsSuicide_Mut(event) ==
    LET attacker_id == Get(event, "attacker_steamid")
        victim_id == Or(Get(event, "user_steamid"), Get(event, "victim_steamid"))
    IN  \/ attacker_id.k = "none"
        \/ PyEq(attacker_id, victim_id)
IsSuicide(event) ==
    LET attacker_id == Get(event, "attacker_steamid")
        victim_id == Or(Get(event, "user_steamid"), Get(event, "victim_steamid"))
    IN  \/ attacker_id.k = "none"
        \/ PyEq(attacker_id, PyStr("0"))
        \/ PyEq(attacker_id, victim_id)

\* Lines 122-130.
IsTeamkill(event, is_suicide) ==
    LET attacker_team == Get(event, "attacker_team")
        victim_team == Or(Get(event, "user_team"), Get(event, "victim_team"))
    IN  /\ attacker_team.k # "none"
        /\ victim_team.k # "none"
        /\ PyEq(attacker_team, victim_team)
        /\ ~is_suicide

\* "if a in event and b not in event: event[b] = event[a]"
Alias(event, a, b) ==
    IF Has(event, a) /\ ~Has(event, b) THEN [event EXCEPT ![b] = event[a]]
    ELSE event

\* Lines 109-151. The float() calls sit in a try that catches what they raise.
EnrichDeathEvent(event) ==
    LET suicide == IsSuicide(event)
        e1 == [event EXCEPT !["is_suicide"] = PyBool(suicide),
                            !["is_teamkill"] = PyBool(IsTeamkill(event, suicide))]
        e2 == IF /\ \A key \in CoordKeys : Has(e1, key)
                 /\ \A key \in CoordKeys : ~FloatRaises(e1[key])
              THEN [e1 EXCEPT !["distance"] = Distance(e1)]
              ELSE e1
    IN  [data |-> Alias(Alias(e2, "user_steamid", "victim_steamid"),
                        "user_name", "victim_name"),
         raised |-> FALSE]

\* Lines 153-168. int() is called outside any try.
EnrichHurtEvent(event) ==
    LET hitgroup == Get(event, "hitgroup")
        e1 == IF hitgroup.k # "none"
              THEN [event EXCEPT !["hitgroup_name"] =
                                     PyStr(HitgroupName(IntOf(hitgroup)))]
              ELSE event
        health_remaining == Get(event, "health")
        e2 == IF health_remaining.k # "none"
              THEN [e1 EXCEPT !["is_fatal"] = PyBool(IntOf(health_remaining) <= 0)]
              ELSE e1
    IN  IF hitgroup.k # "none" /\ IntRaises(hitgroup)
        THEN [data |-> event, raised |-> TRUE]
        ELSE IF health_remaining.k # "none" /\ IntRaises(health_remaining)
        THEN [data |-> e1, raised |-> TRUE]
        ELSE [data |-> Alias(e2, "user_steamid", "victim_steamid"),
              raised |-> FALSE]

\* Lines 170-183.
EnrichRoundEndEvent(event) ==
    LET reason == Get(event, "reason")
        e1 == IF reason.k # "none"
              THEN [event EXCEPT !["reason_name"] =
                                     PyStr(RoundEndReason(IntOf(reason)))]
              ELSE event
        winner == Get(event, "winner")
        e2 == IF PyEq(winner, PyInt(TEAM_T))
              THEN [e1 EXCEPT !["winner_team_name"] = PyStr("Terrorists")]
              ELSE IF PyEq(winner, PyInt(TEAM_CT))
              THEN [e1 EXCEPT !["winner_team_name"] = PyStr("Counter-Terrorists")]
              ELSE e1
    IN  IF reason.k # "none" /\ IntRaises(reason)
        THEN [data |-> event, raised |-> TRUE]
        ELSE [data |-> e2, raised |-> FALSE]

\* Lines 103-105: every key that contains "steamid" and is not None.
NormalizeSteamids(event) ==
    [key \in DOMAIN event |->
        IF key \in SteamidKeys /\ Has(event, key) /\ event[key].k # "none"
        THEN StrOf(event[key])
        ELSE event[key]]

\* Lines 86-107. The dict passed in is the dict every step assigns into and the
\* dict returned: data is its content when the call returns or raises.
EnrichEvent(event_name, event_data) ==
    LET e0 == [event_data EXCEPT !["event_name"] = PyStr(event_name)]
        r == CASE event_name = "player_death" -> EnrichDeathEvent(e0)
               [] event_name = "player_hurt" -> EnrichHurtEvent(e0)
               [] event_name = "round_end" -> EnrichRoundEndEvent(e0)
               [] OTHER -> [data |-> e0, raised |-> FALSE]
    IN  IF r.raised THEN r
        ELSE [data |-> NormalizeSteamids(r.data), raised |-> FALSE]

\* The event names of the model and the rows their tables can hold.
EventNames == {"player_death", "player_hurt", "round_end", "player_blind"}
EmptyRow == [key \in EventKeys |-> PyAbsent]
NoTable == [missing |-> FALSE, rows |-> <<>>]
NoCall == [made |-> FALSE, arg |-> EmptyRow, arg_after |-> EmptyRow,
           result_is_arg |-> FALSE]

\* x.get("tick", 0), the sort key of an event.
TickKey(event) == IF Has(event, "tick") THEN event["tick"].n ELSE 0

\* Line 65: events = [].
EventsBegin ==
    /\ epc = "start"
    /\ epc' = "table"
    /\ en' = 1
    /\ er' = 1
    /\ events' = <<>>
    /\ extraction_failed' = {}
    /\ UNCHANGED <<event_names, event_df, enrich_call>>
    /\ UNCHANGED notEvVars

\* Lines 67-70 and 74-79: the table of the next event name is fetched; a
\* missing table raises into the except of this name.
EventsTable ==
    /\ epc = "table"
    /\ en <= Len(event_names)
    /\ LET event_name == event_names[en]
           tbl == event_df[event_name]
       IN  IF tbl.missing
           THEN /\ extraction_failed' = extraction_failed \cup {event_name}
                /\ en' = en + 1
                /\ epc' = "table"
           ELSE IF Len(tbl.rows) = 0
           THEN /\ en' = en + 1
                /\ epc' = "table"
                /\ UNCHANGED extraction_failed
           ELSE /\ epc' = "rows"
                /\ UNCHANGED <<en, extraction_failed>>
    /\ er' = 1
    /\ UNCHANGED <<event_names, event_df, events, enrich_call>>
    /\ UNCHANGED notEvVars

\* Lines 71-79: one row is copied into a dict, enriched and appended; when the
\* enrichment raises, the except of this name ends the loop over its rows.
EventsRow ==
    /\ epc = "rows"
    /\ LET event_name == event_names[en]
           rows == event_df[event_name].rows
           arg == rows[er]
           result == EnrichEvent(event_name, arg)
       IN  /\ enrich_call' = [made |-> TRUE, arg |-> arg,
                              arg_after |-> result.data,
                              result_is_arg |-> ~result.raised]
           /\ IF result.raised
              THEN /\ extraction_failed' = extraction_failed \cup {event_name}
                   /\ en' = en + 1
                   /\ er' = 1
                   /\ epc' = "table"
                   /\ UNCHANGED events
              ELSE /\ events' = Append(events,
                                       [tick |-> TickKey(result.data),
                                        name |-> event_name, row |-> er,
                                        data |-> result.data])
                   /\ IF er < Len(rows)
                      THEN er' = er + 1 /\ UNCHANGED <<en, epc>>
                      ELSE er' = 1 /\ en' = en + 1 /\ epc' = "table"
                   /\ UNCHANGED extraction_failed
    /\ UNCHANGED <<event_names, event_df>>
    /\ UNCHANGED notEvVars

\* Lines 81-84: events.sort(key=lambda x: x.get("tick", 0)); return events.
EventsReturn ==
    /\ epc = "table"
    /\ en > Len(event_names)
    /\ events' = SortByTick(events)
    /\ epc' = "done"
    /\ UNCHANGED <<event_names, event_df, en, er, extraction_failed, enrich_call>>
    /\ UNCHANGED notEvVars

EventsNext == EventsBegin \/ EventsTable \/ EventsRow \/ EventsReturn

(* ====================================================================== *)
(*                  EventExtractor.extract_damage_matrix                   *)
(* ====================================================================== *)

\* str(row.get(key, "")): the empty string for a column that is not there.
StrOrEmpty(row, key) ==
    IF row[key].k = "absent" THEN "" ELSE StrOf(row[key]).s

\* Line 231: if attacker and victim and attacker != "0"
CountsRow_Mut(attacker, victim) == attacker # "" /\ victim # ""
CountsRow(attacker, victim) == attacker # "" /\ victim # "" /\ attacker # "0"

\* Lines 232-236: the two levels of the dict are created on first use, then
\* the damage is added.
AddDamage(matrix, attacker, victim, damage) ==
    LET m1 == IF attacker \in DOMAIN matrix THEN matrix
              ELSE matrix @@ (attacker :> <<>>)
        inner == IF victim \in DOMAIN m1[attacker] THEN m1[attacker]
                 ELSE m1[attacker] @@ (victim :> 0)
    IN  [m1 EXCEPT ![attacker] = [inner EXCEPT ![victim] = @ + damage]]

\* Lines 221-224: the table is fetched; without it the empty matrix is returned.
MatrixBegin ==
    /\ mpc = "start"
    /\ damage_matrix' = <<>>
    /\ mi' = 1
    /\ mpc' = IF player_hurt_missing THEN "done" ELSE "loop"
    /\ UNCHANGED <<player_hurt_df, player_hurt_missing>>
    /\ UNCHANGED notMatrixVars

\* Lines 226-236: one row.
MatrixIter ==
    /\ mpc = "loop"
    /\ mi <= Len(player_hurt_df)
    /\ LET row == player_hurt_df[mi]
           attacker == StrOrEmpty(row, "attacker_steamid")
           victim == StrOrEmpty(row, "user_steamid")
           damage == row["dmg_health"].n
       IN  damage_matrix' =
               IF CountsRow(attacker, victim)
               THEN AddDamage(damage_matrix, attacker, victim, damage)
               ELSE damage_matrix
    /\ mi' = mi + 1
    /\ UNCHANGED <<mpc, player_hurt_df, player_hurt_missing>>
    /\ UNCHANGED notMatrixVars

\* Line 241.
MatrixReturn ==
    /\ mpc = "loop"
    /\ mi > Len(player_hurt_df)
    /\ mpc' = "done"
    /\ UNCHANGED <<mi, damage_matrix, player_hurt_df, player_hurt_missing>>
    /\ UNCHANGED notMatrixVars

MatrixNext == MatrixBegin \/ MatrixIter \/ MatrixReturn

(* ====================================================================== *)
(*                       DemoParser.parse_streaming                        *)
(* ====================================================================== *)

\* models/output.py: StreamingChunk; total_chunks defaults to None.
StreamingChunk(chunk_type, chunk_index, total_chunks, data) ==
    [chunk_type |-> chunk_type, chunk_index |-> chunk_index,
     total_chunks |-> total_chunks, data |-> data]

\* Line 195: num_chunks = (total_ticks + chunk_size - 1) // chunk_size
NumChunks_Mut(total_ticks, size) == total_ticks \div size
NumChunks(total_ticks, size) == (total_ticks + size - 1) \div size

\* Lines 198-200: all_ticks[start_idx:end_idx], indexes counted from 0.
ChunkTicks(ticks, i, size) ==
    LET start_idx == i * size
        end_idx == IF (i + 1) * size < Len(ticks) THEN (i + 1) * size
                   ELSE Len(ticks)
    IN  SubSeq(ticks, start_idx + 1, end_idx)

\* api.py lines 293-296: the generator runs when the loop of generate() asks
\* for the next chunk, which a closed generator is never asked for.
MayResume_Mut(g) == TRUE
MayResume(g) == g # "closed"

\* yield chunk: the generator hands the chunk to its consumer and is
\* suspended at pc.
Yield(chunk, pc) ==
    /\ emitted' = Append(emitted, chunk)
    /\ spc' = pc
    /\ gen' = "suspended"

\* The row-source queries (parse_header, parse_ticks, parse_event) of one
\* extraction are issued and the temporary file stays.
Query(extraction) ==
    /\ queries' = Append(queries, extraction)
    /\ UNCHANGED tmp_exists

\* Lines 150-164: the path is checked, then the metadata chunk is yielded; the
\* exception leaves generate() through its finally clause.
StreamMetadata ==
    /\ spc = "start"
    /\ MayResume(gen)
    /\ IF demo_exists
       THEN /\ Yield(StreamingChunk("metadata", 0, NA, <<>>), "players")
            /\ Query("metadata")
       ELSE /\ spc' = "raised" /\ UNCHANGED emitted
            /\ gen' = "closed" /\ tmp_exists' = FALSE
            /\ UNCHANGED queries
    /\ UNCHANGED <<demo_exists, chat_present, tick_rows, ticks_raise, chunk_size,
                   all_ticks, num_chunks, ti>>
    /\ UNCHANGED notStreamVars

\* Lines 166-172.
StreamPlayers ==
    /\ spc = "players"
    /\ MayResume(gen)
    /\ Yield(StreamingChunk("players", 0, NA, <<>>), "rounds")
    /\ UNCHANGED <<demo_exists, chat_present, tick_rows, ticks_raise, chunk_size,
                   all_ticks, num_chunks, ti>>
    /\ Query("players")
    /\ UNCHANGED notStreamVars

\* Lines 174-180.
StreamRounds ==
    /\ spc = "rounds"
    /\ MayResume(gen)
    /\ Yield(StreamingChunk("rounds", 0, NA, <<>>), "events")
    /\ UNCHANGED <<demo_exists, chat_present, tick_rows, ticks_raise, chunk_size,
                   all_ticks, num_chunks, ti>>
    /\ Query("rounds")
    /\ UNCHANGED notStreamVars

\* Lines 182-188.
StreamEvents ==
    /\ spc = "events"
    /\ MayResume(gen)
    /\ Yield(StreamingChunk("events", 0, NA, <<>>), "extract_ticks")
    /\ UNCHANGED <<demo_exists, chat_present, tick_rows, ticks_raise, chunk_size,
                   all_ticks, num_chunks, ti>>
    /\ Query("events")
    /\ UNCHANGED notStreamVars

\* Lines 190-195 and 564-573: the tick table as a list, the empty list when
\* parse_ticks raises; then the number of chunks.
StreamExtractTicks ==
    /\ spc = "extract_ticks"
    /\ MayResume(gen)
    /\ all_ticks' = IF ticks_raise THEN <<>> ELSE tick_rows
    /\ num_chunks' = NumChunks(Len(all_ticks'), chunk_size)
    /\ ti' = 0
    /\ spc' = "tick_loop"
    /\ UNCHANGED <<demo_exists, chat_present, tick_rows, ticks_raise, chunk_size,
                   emitted>>
    /\ Query("ticks")
    /\ gen' = "running"
    /\ UNCHANGED notStreamVars

\* Lines 197-207: for i in range(num_chunks): one tick chunk.
StreamTickChunk ==
    /\ spc = "tick_loop"
    /\ MayResume(gen)
    /\ ti < num_chunks
    /\ Yield(StreamingChunk("ticks", ti, num_chunks,
                            ChunkTicks(all_ticks, ti, chunk_size)),
             "tick_loop")
    /\ ti' = ti + 1
    /\ UNCHANGED <<demo_exists, chat_present, tick_rows, ticks_raise, chunk_size,
                   all_ticks, num_chunks>>
    /\ UNCHANGED <<queries, tmp_exists>>
    /\ UNCHANGED notStreamVars

\* Lines 209-215: after the loop.
StreamGrenades ==
    /\ spc = "tick_loop"
    /\ MayResume(gen)
    /\ ti >= num_chunks
    /\ Yield(StreamingChunk("grenades", 0, NA, <<>>), "complete")
    /\ UNCHANGED <<demo_exists, chat_present, tick_rows, ticks_raise, chunk_size,
                   all_ticks, num_chunks, ti>>
    /\ Query("grenades")
    /\ UNCHANGED notStreamVars

\* Line 217: the generator logs and ends; no chat chunk is built. The loop of
\* generate() ends and its finally clause removes the temporary file.
StreamComplete ==
    /\ spc = "complete"
    /\ MayResume(gen)
    /\ spc' = "end"
    /\ UNCHANGED <<demo_exists, chat_present, tick_rows, ticks_raise, chunk_size,
                   all_ticks, num_chunks, ti, emitted>>
    /\ gen' = "closed"
    /\ tmp_exists' = FALSE
    /\ UNCHANGED queries
    /\ UNCHANGED notStreamVars

\* api.py lines 290-298: the consumer stops while generate() is suspended at
\* its yield; closing it closes the chunk generator where it stands and runs
\* the finally clause, os.unlink(tmp_path).
GenerateCancel ==
    /\ spc # "idle"
    /\ gen = "suspended"
    /\ gen' = "closed"
    /\ tmp_exists' = FALSE
    /\ UNCHANGED <<demo_exists, chat_present, tick_rows, ticks_raise, chunk_size,
                   spc, all_ticks, num_chunks, ti, emitted, queries>>
    /\ UNCHANGED notStreamVars

StreamNext ==
    \/ StreamMetadata \/ StreamPlayers \/ StreamRounds \/ StreamEvents
    \/ StreamExtractTicks \/ StreamTickChunk \/ StreamGrenades \/ StreamComplete
    \/ GenerateCancel

(* ====================================================================== *)
(*            streaming/writer.py: NDJSONWriter, stream_to_bytes            *)
(* ====================================================================== *)

\* One line of output: the keys of its JSON object, the value of its type key
\* (chunk_type or type), of its index key (chunk_index or batch_index, NA
\* without one), of total_chunks (NA for null or without one), the number of
\* records in its data, and whether a newline ends it.
Line(keys, type, index, total_chunks, count, newline) ==
    [keys |-> keys, type |-> type, index |-> index,
     total_chunks |-> total_chunks, count |-> count, newline |-> newline]

\* Lines 79-86 and 255-265: the object built from a chunk.
ChunkLine(chunk, newline) ==
    Line({"chunk_type", "chunk_index", "total_chunks", "data"},
         chunk.chunk_type, chunk.chunk_index, chunk.total_chunks,
         Len(chunk.data), newline)

\* Lines 95-107, 131, 135: {"type": ..., "data": ...}
TypeLine(type, count) == Line({"type", "data"}, type, NA, NA, count, TRUE)

\* Lines 111-117 and 121-127: for i in range(0, len(records), batch_size), the
\* line of the batch records[i : i + batch_size].
BatchLines(type, len) ==
    [b \in 1 .. (len + BATCH_SIZE - 1) \div BATCH_SIZE |->
        LET i == (b - 1) * BATCH_SIZE
        IN  Line({"type", "batch_index", "data"}, type, i \div BATCH_SIZE, NA,
                 IF len - i < BATCH_SIZE THEN len - i ELSE BATCH_SIZE, TRUE)]

\* Lines 94-135: the lines of a complete document; ticks is None (NA) or a
\* list; empty ticks, grenades and chat write nothing.
CompleteLines(data) ==
    <<TypeLine("metadata", 1), TypeLine("players", data.players),
      TypeLine("rounds", data.rounds)>>
    \o BatchLines("events", data.events)
    \o (IF data.ticks # NA /\ data.ticks > 0
        THEN BatchLines("ticks", data.ticks) ELSE <<>>)
    \o (IF data.grenades > 0 THEN <<TypeLine("grenades", data.grenades)>> ELSE <<>>)
    \o (IF data.chat_messages > 0
        THEN <<TypeLine("chat", data.chat_messages)>> ELSE <<>>)

\* The chunks and documents handed to the writer.
WriterChunks ==
    {StreamingChunk("metadata", 0, NA, <<>>),
     StreamingChunk("ticks", 0, 2, <<1>>),
     StreamingChunk("ticks", 1, 2, <<2>>)}
ParsedDemos ==
    [players : {0}, rounds : {1}, events : {0, 1, BATCH_SIZE + 1},
     ticks : {NA, 0, BATCH_SIZE + 1}, grenades : {0, 1}, chat_messages : {0, 1}]

\* Lines 76-77 and 91-92: if self._file is None: raise RuntimeError(...)
NotInitialized_Mut(open) == FALSE
NotInitialized(open) == ~open

\* Lines 74-87: write_chunk raises without a file.
NdjsonWriteChunk ==
    /\ wpc = "open"
    /\ writes < MaxWrites
    /\ \E chunk \in WriterChunks :
           IF ~NotInitialized(file_open)
           THEN /\ file_lines' = Append(file_lines, ChunkLine(chunk, TRUE))
                /\ UNCHANGED writer_raised
           ELSE /\ writer_raised' = TRUE
                /\ UNCHANGED file_lines
    /\ writes' = writes + 1
    /\ UNCHANGED <<wpc, file_open, streamed>>
    /\ UNCHANGED <<jsonVars, notWriterVars>>

\* Lines 89-141: write_complete raises without a file, else writes every line.
NdjsonWriteComplete ==
    /\ wpc = "open"
    /\ writes < MaxWrites
    /\ \E data \in ParsedDemos :
           IF ~NotInitialized(file_open)
           THEN /\ file_lines' = file_lines \o CompleteLines(data)
                /\ UNCHANGED writer_raised
           ELSE /\ writer_raised' = TRUE
                /\ UNCHANGED file_lines
    /\ writes' = writes + 1
    /\ UNCHANGED <<wpc, file_open, streamed>>
    /\ UNCHANGED <<jsonVars, notWriterVars>>

\* Lines 143-148: finalize closes the file once.
NdjsonFinalize ==
    /\ wpc = "open"
    /\ writes < MaxWrites
    /\ file_open' = FALSE
    /\ writes' = writes + 1
    /\ UNCHANGED <<wpc, file_lines, streamed, writer_raised>>
    /\ UNCHANGED <<jsonVars, notWriterVars>>

\* Lines 245-265: stream_to_bytes yields one object per chunk, with a newline
\* in the ndjson format only.
StreamToBytes ==
    /\ wpc = "open"
    /\ writes < MaxWrites
    /\ \E chunk \in WriterChunks, format \in {"ndjson", "json"} :
           streamed' = Append(streamed, ChunkLine(chunk, format = "ndjson"))
    /\ writes' = writes + 1
    /\ UNCHANGED <<wpc, file_open, file_lines, writer_raised>>
    /\ UNCHANGED <<jsonVars, notWriterVars>>

(* ====================================================================== *)
(*                     streaming/writer.py: JSONWriter                     *)
(* ====================================================================== *)

\* A JSON document: its top-level keys, each with the number of records under
\* it (1 for the metadata object, NA for null).
DocKeys ==
    {"metadata", "players", "rounds", "events", "ticks", "grenades",
     "chat_messages"}
Put(dict, key, value) ==
    [k \in DOMAIN dict \cup {key} |-> IF k = key THEN value ELSE dict[k]]

\* Lines 176-179: data.model_dump(), every field of ParsedDemo.
ModelDump(data) ==
    [k \in DocKeys |-> IF k = "metadata" THEN 1 ELSE data[k]]

\* Lines 200-216: one chunk folded into combined_data; a chunk of another
\* type adds nothing.
CombineChunk(combined, chunk) ==
    LET t == chunk.chunk_type
        n == Len(chunk.data)
    IN  IF t = "metadata" THEN Put(combined, t, 1)
        ELSE IF t \in {"players", "rounds", "grenades"} THEN Put(combined, t, n)
        ELSE IF t \in {"events", "ticks"}
        THEN Put(combined, t, (IF t \in DOMAIN combined THEN combined[t] ELSE 0) + n)
        ELSE combined

\* Lines 198-200: combined_data = {}, then for chunk in self._chunks.
RECURSIVE Combine(_)
Combine(chunks) ==
    IF chunks = <<>> THEN <<>>
    ELSE CombineChunk(Combine(SubSeq(chunks, 1, Len(chunks) - 1)),
                      chunks[Len(chunks)])

\* Lines 192-193: if not self._chunks: return
FinalizeWrites_Mut(chunks) == TRUE
FinalizeWrites(chunks) == chunks # <<>>

\* Lines 181-186 and 220-225: open(path, "wb") replaces the file's contents.
NoFile == [exists |-> FALSE, written |-> 0, doc |-> <<>>]
WriteFile(file, doc) ==
    [exists |-> TRUE, written |-> file.written + 1, doc |-> doc]

\* The chunks of a streaming parse with the given numbers of tick records per
\* tick chunk, in the order parse_streaming yields them.
StreamChunks(tick_counts) ==
    <<StreamingChunk("metadata", 0, NA, <<>>),
      StreamingChunk("players", 0, NA, <<1>>),
      StreamingChunk("rounds", 0, NA, <<1>>),
      StreamingChunk("events", 0, NA, <<1>>)>>
    \o [i \in 1 .. Len(tick_counts) |->
           StreamingChunk("ticks", i - 1, Len(tick_counts),
                          [k \in 1 .. tick_counts[i] |-> k])]
    \o <<StreamingChunk("grenades", 0, NA, <<1>>)>>

\* What the callers of JSONWriter pass: runs of chunks handed to write_chunk
\* one after the other, and the documents handed to write_complete.
JsonChunkRuns ==
    {<<StreamingChunk("metadata", 0, NA, <<>>)>>,
     <<StreamingChunk("ticks", 0, 1, <<1>>)>>,
     StreamChunks(<<>>), StreamChunks(<<2, 1>>)}
JsonDemos == {d \in ParsedDemos : d.events = 1 /\ d.grenades = 1 /\ d.ticks # 0}

JsonCall(op, doc) == [op |-> op, doc |-> doc]

\* Lines 168-170: write_chunk, called for each chunk of a run in turn.
JsonWriteChunk ==
    /\ wpc = "json"
    /\ Len(json_calls) < MaxCalls
    /\ \E run \in JsonChunkRuns : json_chunks' = json_chunks \o run
    /\ json_calls' = Append(json_calls, JsonCall("write_chunk", <<>>))
    /\ UNCHANGED json_file
    /\ UNCHANGED <<ndjsonVars, notWriterVars>>

\* Lines 172-188: write_complete writes the document and leaves the buffer.
JsonWriteComplete ==
    /\ wpc = "json"
    /\ Len(json_calls) < MaxCalls
    /\ \E data \in JsonDemos :
           /\ json_file' = WriteFile(json_file, ModelDump(data))
           /\ json_calls' =
                  Append(json_calls, JsonCall("write_complete", ModelDump(data)))
    /\ UNCHANGED json_chunks
    /\ UNCHANGED <<ndjsonVars, notWriterVars>>

\* Lines 190-228: finalize returns at once with an empty buffer; otherwise it
\* writes the document combined from the buffer and clears the buffer.
JsonFinalize ==
    /\ wpc = "json"
    /\ Len(json_calls) < MaxCalls
    /\ IF FinalizeWrites(json_chunks)
       THEN /\ json_file' = WriteFile(json_file, Combine(json_chunks))
            /\ json_chunks' = <<>>
       ELSE UNCHANGED <<json_file, json_chunks>>
    /\ json_calls' = Append(json_calls, JsonCall("finalize", <<>>))
    /\ UNCHANGED <<ndjsonVars, notWriterVars>>

WriterNext ==
    \/ NdjsonWriteChunk \/ NdjsonWriteComplete \/ NdjsonFinalize \/ StreamToBytes
    \/ JsonWriteChunk \/ JsonWriteComplete \/ JsonFinalize

(* ====================================================================== *)
(*                            DemoParser.parse                             *)
(* ====================================================================== *)

\* The queries parse() puts to the row source, and what each can do: return
\* rows, return an empty table, or raise.
ParseQueries ==
    {"header", "tick_count", "team_names", "players", "round_start",
     "round_end", "events", "ticks", "grenades", "chat"}
Outcomes == {"rows", "empty", "raises"}

\* Lines 222-258: parse_header() is called outside any try; the tick count
\* and the team names fall back to defaults.
MetadataRaises(outcome) == outcome["header"] = "raises"
ExtractMetadata(outcome) ==
    [map_name |-> IF outcome["header"] = "rows" THEN "de_dust2" ELSE "unknown",
     total_ticks |-> IF outcome["tick_count"] = "rows" THEN 64 ELSE 0,
     team1_name |-> IF outcome["team_names"] = "rows" THEN "Terrorists"
                    ELSE "Team 1"]

\* Lines 260-309, 520-562, 575-621, 623-643: the whole extraction is inside a
\* try; an empty or failed query leaves the list empty.
ExtractList(outcome, query) ==
    IF outcome[query] = "rows" THEN "rows" ELSE "empty"

\* Lines 311-330 and 436-467: without round_start or round_end rows the round
\* list is empty.
ExtractRounds(outcome) ==
    IF outcome["round_start"] = "rows" /\ outcome["round_end"] = "rows"
    THEN "rows" ELSE "empty"

NoMetadata == [map_name |-> "", total_ticks |-> 0, team1_name |-> ""]
NoParsedDemo ==
    [metadata |-> NoMetadata, players |-> "unset", rounds |-> "unset",
     events |-> "unset", ticks |-> "unset", grenades |-> "unset",
     chat_messages |-> "unset"]

\* Lines 83-92: the path is checked, the parser is made, metadata is extracted.
ParseMetadata ==
    /\ ppc = "metadata"
    /\ IF ~demo.exists \/ MetadataRaises(demo.outcome)
       THEN ppc' = "raised" /\ UNCHANGED parsed
       ELSE /\ parsed' = [parsed EXCEPT !.metadata = ExtractMetadata(demo.outcome)]
            /\ ppc' = "players"
    /\ UNCHANGED demo
    /\ UNCHANGED notParseVars

\* One extraction of lines 93-107, then the next.
ParseStep(pc, field, value, next_pc) ==
    /\ ppc = pc
    /\ parsed' = [parsed EXCEPT ![field] = value]
    /\ ppc' = next_pc
    /\ UNCHANGED demo
    /\ UNCHANGED notParseVars

\* Line 93.
ParsePlayers ==
    ParseStep("players", "players", ExtractList(demo.outcome, "players"), "rounds")
\* Line 94.
ParseRounds == ParseStep("rounds", "rounds", ExtractRounds(demo.outcome), "events")
\* Line 95.
ParseEvents ==
    ParseStep("events", "events", ExtractList(demo.outcome, "events"), "ticks")
\* Lines 97-99, extract_ticks left at its default.
ParseTicks ==
    ParseStep("ticks", "ticks", ExtractList(demo.outcome, "ticks"), "grenades")
\* Lines 101-103.
ParseGrenades ==
    ParseStep("grenades", "grenades", ExtractList(demo.outcome, "grenades"), "chat")
\* Lines 105-126: chat, then the document is returned.
ParseChat ==
    ParseStep("chat", "chat_messages", ExtractList(demo.outcome, "chat"), "done")

ParseNext ==
    \/ ParseMetadata \/ ParsePlayers \/ ParseRounds \/ ParseEvents
    \/ ParseTicks \/ ParseGrenades \/ ParseChat

(* ====================================================================== *)
(*                 api.py: parse_jobs and the background task              *)
(* ====================================================================== *)

\* The demo_id values of /parse/path requests ("" for none) and the values
\* uuid.uuid4() returns.
DemoIds == {"", "demo-a"}
Uuids == {"uuid-1", "uuid-2", "uuid-3", "uuid-4"}
NoJob == ""

\* Lines 158-162 and 200-204: ParseProgress(status="queued", progress_percent=0)
QueuedProgress == [status |-> "queued", progress_percent |-> 0]

\* Lines 158-173 and 200-214: the entry of the job is (re)placed and one
\* background task is added for it.
Enqueue(job_id) ==
    /\ background.running = NoJob
    /\ background.requests < MaxRequests
    /\ parse_jobs' = Put(parse_jobs, job_id, QueuedProgress)
    /\ background' = [background EXCEPT !.requests = @ + 1,
                                        !.pending = Append(@, job_id)]
    /\ UNCHANGED notJobVars

\* Lines 143-173: /parse/upload, the job id is a new uuid.
ParseUploadedDemo ==
    \E job_id \in Uuids \ DOMAIN parse_jobs : Enqueue(job_id)

\* Lines 192-214: /parse/path, job_id = request.demo_id or str(uuid.uuid4()).
ParseDemoFromPath ==
    \E demo_id \in DemoIds :
        IF demo_id # ""
        THEN Enqueue(demo_id)
        ELSE \E job_id \in Uuids \ DOMAIN parse_jobs : Enqueue(job_id)

\* Lines 389-391: a background task that was added starts; it runs to its end
\* without an await, so nothing else runs until it has finished.
BackgroundStart ==
    /\ background.running = NoJob
    /\ \E k \in 1 .. Len(background.pending) :
           LET job_id == background.pending[k]
           IN  /\ parse_jobs' =
                      [parse_jobs EXCEPT ![job_id] =
                          [status |-> "parsing", progress_percent |-> 10]]
               /\ background' =
                      [background EXCEPT
                          !.running = job_id,
                          !.pending = SubSeq(@, 1, k - 1)
                                      \o SubSeq(@, k + 1, Len(@))]
    /\ UNCHANGED notJobVars

\* Lines 393-432: the parse and the write succeed (status "complete", 100
\* percent) or raise (status "error", the percentage stays).
BackgroundFinish ==
    /\ background.running # NoJob
    /\ \E success \in BOOLEAN :
           parse_jobs' =
               [parse_jobs EXCEPT ![background.running] =
                   IF success
                   THEN [status |-> "complete", progress_percent |-> 100]
                   ELSE [@ EXCEPT !.status = "error"]]
    /\ background' = [background EXCEPT !.running = NoJob]
    /\ UNCHANGED notJobVars

JobsNext ==
    ParseUploadedDemo \/ ParseDemoFromPath \/ BackgroundStart \/ BackgroundFinish

(* ====================================================================== *)
(*                            specifications                               *)
(* ====================================================================== *)

\* A component that is not running: its tables are empty, nothing is enabled.
IdleRounds ==
    /\ round_starts = <<>> /\ round_ends = <<>> /\ has_round = FALSE
    /\ bomb_plants = <<>> /\ bomb_defuses = <<>> /\ bomb_explosions = <<>>
    /\ rpc = "idle" /\ ri = 1 /\ rounds = <<>>
    /\ ct_score = 0 /\ t_score = 0 /\ rounds_warning = ""
IdleFlash ==
    /\ detonate_df = <<>> /\ blind_df = <<>> /\ blind_has_entity = FALSE
    /\ fpc = "idle" /\ fi = 1 /\ flashes = <<>> /\ flash_data = <<>>
IdleHe ==
    /\ he_detonate_df = <<>> /\ hurt_df = <<>>
    /\ hpc = "idle" /\ hi = 1 /\ he_grenades = <<>>

IdleAll ==
    /\ event_tables = <<>> /\ apc = "idle" /\ grenades = <<>> /\ failed = {}
    /\ summary = NoSummary
IdleEvents ==
    /\ event_names = <<>> /\ event_df = <<>> /\ epc = "idle" /\ en = 1 /\ er = 1
    /\ events = <<>> /\ extraction_failed = {} /\ enrich_call = NoCall
IdleMatrix ==
    /\ player_hurt_df = <<>> /\ player_hurt_missing = FALSE
    /\ mpc = "idle" /\ mi = 1 /\ damage_matrix = <<>>
IdleStream ==
    /\ demo_exists = FALSE /\ chat_present = FALSE /\ tick_rows = <<>>
    /\ ticks_raise = FALSE /\ chunk_size = 1 /\ spc = "idle"
    /\ all_ticks = <<>> /\ num_chunks = 0 /\ ti = 0 /\ emitted = <<>>
    /\ gen = "closed" /\ tmp_exists = FALSE /\ queries = <<>>
IdleWriter ==
    /\ wpc = "idle" /\ file_open = FALSE /\ file_lines = <<>> /\ streamed = <<>>
    /\ writes = 0 /\ writer_raised = FALSE
    /\ json_chunks = <<>> /\ json_file = NoFile /\ json_calls = <<>>
IdleParse ==
    /\ demo = [exists |-> FALSE, outcome |-> <<>>] /\ ppc = "idle"
    /\ parsed = NoParsedDemo
\* No request is served: MaxRequests have been.
IdleJobs ==
    /\ parse_jobs = <<>>
    /\ background = [pending |-> <<>>, running |-> NoJob, requests |-> MaxRequests]
IdleLater ==
    /\ IdleAll /\ IdleEvents /\ IdleMatrix /\ IdleStream /\ IdleWriter
    /\ IdleParse /\ IdleJobs

RoundsEntry ==
    /\ rpc = "start" /\ ri = 1 /\ rounds = <<>>
    /\ ct_score = 0 /\ t_score = 0 /\ rounds_warning = ""

\* Start rows without a "round" column, some without a tick; every winner.
InitRoundsScores ==
    /\ has_round = FALSE
    /\ round_starts \in SeqsUpTo([tick : Ticks \cup {NA}, round : {NA}], MaxStarts)
    /\ round_ends \in SeqsUpTo([tick : Ticks, winner : Winners], MaxEnds)
    /\ bomb_plants = <<>> /\ bomb_defuses = <<>> /\ bomb_explosions = <<>>

\* Start rows that carry their own "round" counter.
InitRoundsNumbered ==
    /\ has_round = TRUE
    /\ round_starts \in SeqsUpTo([tick : Ticks, round : RoundNums], MaxStarts)
    /\ round_ends \in SeqsUpTo([tick : Ticks, winner : {"CT"}], MaxEnds)
    /\ bomb_plants = <<>> /\ bomb_defuses = <<>> /\ bomb_explosions = <<>>

InitRounds ==
    /\ RoundsEntry
    /\ InitRoundsScores \/ InitRoundsNumbered
    /\ IdleFlash
    /\ IdleHe
    /\ IdleLater

SpecRounds == InitRounds /\ [][RoundsNext]_vars

\* Bomb tables around one round: every placement of plant, defuse and
\* explosion rows relative to the round's start and end tick; the round
\* starts at tick 0 or 1 and ends before, at or after its start.
InitBomb ==
    /\ RoundsEntry
    /\ has_round = FALSE
    /\ round_starts \in [1 .. 1 -> [tick : {0, 1}, round : {NA}]]
    /\ round_ends \in [1 .. 1 -> [tick : Ticks, winner : {"T"}]]
    /\ bomb_plants \in SeqsUpTo([tick : Ticks, site : SiteVals], MaxPlants)
    /\ bomb_defuses \in SeqsUpTo([tick : Ticks], 1)
    /\ bomb_explosions \in SeqsUpTo([tick : Ticks], 1)
    /\ IdleFlash
    /\ IdleHe
    /\ IdleLater

SpecBomb == InitBomb /\ [][RoundsNext]_vars

InitFlash ==
    /\ fpc = "start" /\ fi = 1 /\ flashes = <<>> /\ flash_data = <<>>
    /\ blind_has_entity \in BOOLEAN
    /\ detonate_df \in SeqsUpTo([tick : DetTicks, entityid : EntityIds,
                                 user_team : {TEAM_T}], MaxDets)
    /\ blind_df \in SeqsUpTo([tick : BlindTicks,
                              attacker_entity_id :
                                  IF blind_has_entity THEN EntityIds ELSE {0},
                              user_team : {TEAM_CT}], MaxBlinds)
    /\ IdleHe

InitHe ==
    /\ hpc = "start" /\ hi = 1 /\ he_grenades = <<>>
    /\ he_detonate_df \in SeqsUpTo([tick : DetTicks, user_team : {TEAM_T}], MaxDets)
    /\ hurt_df \in SeqsUpTo([tick : HurtTicks, weapon : Weapons,
                             dmg_health : {1, 2}, user_team : {TEAM_CT}], MaxHurts)
    /\ IdleFlash

\* Throwers and victims of every team, team 0 (unassigned, or the default
\* of a missing user_team column) included; every blind row is in the window.
InitFlashTeams ==
    /\ fpc = "start" /\ fi = 1 /\ flashes = <<>> /\ flash_data = <<>>
    /\ blind_has_entity = FALSE
    /\ detonate_df \in SeqsUpTo([tick : {1}, entityid : {0},
                                 user_team : Teams], MaxDets)
    /\ blind_df \in SeqsUpTo([tick : {1}, attacker_entity_id : {0},
                              user_team : Teams], MaxBlinds)
    /\ IdleHe

InitGrenades ==
    /\ IdleRounds
    /\ InitFlash \/ InitHe \/ InitFlashTeams
    /\ IdleLater

SpecGrenades == InitGrenades /\ [][GrenadesNext]_vars

\* Both flash linkers on the same tables without entity ids: throwers and
\* victims of every team, blind rows inside and outside the window.
InitLinkers ==
    /\ IdleRounds
    /\ fpc = "start" /\ fi = 1 /\ flashes = <<>> /\ flash_data = <<>>
    /\ blind_has_entity = FALSE
    /\ detonate_df \in SeqsUpTo([tick : {1}, entityid : {0},
                                 user_team : Teams], MaxDets)
    /\ blind_df \in SeqsUpTo([tick : {1, FLASH_WINDOW + 2},
                              attacker_entity_id : {0},
                              user_team : Teams], MaxBlinds)
    /\ IdleHe
    /\ IdleLater

SpecLinkers == InitLinkers /\ [][LinkersNext]_vars

\* The rows a grenade event table can hold.
RowsFor(name, ticks) ==
    [tick : ticks, weapon : IF name = "weapon_fire" THEN FireWeapons ELSE {""}]
AllEntry ==
    apc = "throws" /\ grenades = <<>> /\ failed = {} /\ summary = NoSummary

\* Every table is there and decodes; two of them hold rows in any tick order.
InitAllSort ==
    /\ AllEntry
    /\ \E a \in GrenadeEventNames, b \in GrenadeEventNames :
         \E ta \in SeqsUpTo(RowsFor(a, GTicks), MaxGRows),
            tb \in SeqsUpTo(RowsFor(b, GTicks), MaxGRows) :
             event_tables =
                 [n \in GrenadeEventNames |->
                     [missing |-> FALSE,
                      rows |-> IF n = a THEN ta ELSE IF n = b THEN tb ELSE <<>>]]

\* One table is missing or holds rows that do not decode; every other table
\* holds one row.
InitAllFail ==
    /\ AllEntry
    /\ \E a \in GrenadeEventNames :
         \E ta \in {[missing |-> TRUE, rows |-> <<>>]}
                    \cup [missing : {FALSE},
                          rows : SeqsUpTo(RowsFor(a, GTicks \cup {NA}), MaxGRows)] :
             event_tables =
                 [n \in GrenadeEventNames |->
                     IF n = a THEN ta
                     ELSE [missing |-> FALSE,
                           rows |-> <<[tick |-> 1,
                                       weapon |-> IF n = "weapon_fire"
                                                  THEN "weapon_flashbang"
                                                  ELSE ""]>>]]

InitAll ==
    /\ InitAllSort \/ InitAllFail
    /\ IdleRounds /\ IdleFlash /\ IdleHe /\ IdleEvents /\ IdleMatrix /\ IdleStream
    /\ IdleWriter /\ IdleParse /\ IdleJobs

SpecAll == InitAll /\ [][AllNext]_vars

EventsEntry ==
    /\ epc = "start" /\ en = 1 /\ er = 1 /\ events = <<>>
    /\ extraction_failed = {} /\ enrich_call = NoCall

\* Kill rows: the attacker id is missing, None, "0", the victim's or another
\* player's; the victim is named by user_steamid, by victim_steamid or by both.
KillRows ==
    {[EmptyRow EXCEPT !["tick"] = PyInt(1),
                      !["attacker_steamid"] = a,
                      !["user_steamid"] = v[1],
                      !["victim_steamid"] = v[2],
                      !["attacker_team"] = at,
                      !["user_team"] = ut,
                      !["victim_team"] = vt] :
        a \in {PyAbsent, PyNone, PyStr("0"), PyStr("111"), PyStr("222")},
        v \in {<<PyAbsent, PyAbsent>>, <<PyStr("111"), PyAbsent>>,
               <<PyAbsent, PyStr("111")>>, <<PyStr("111"), PyStr("111")>>,
               <<PyNone, PyStr("111")>>},
        at \in {PyAbsent, PyNone, PyInt(TEAM_T), PyInt(TEAM_CT)},
        ut \in {PyAbsent, PyInt(0), PyInt(TEAM_T)},
        vt \in {PyAbsent, PyInt(TEAM_T)}}

\* Kill rows with positions: one coordinate is missing, None, NaN, a string
\* or a number.
CoordRows ==
    {[EmptyRow EXCEPT !["tick"] = PyInt(1),
                      !["attacker_steamid"] = PyStr("111"),
                      !["user_steamid"] = PyStr("222"),
                      !["attacker_X"] = x,
                      !["attacker_Y"] = y,
                      !["attacker_Z"] = PyInt(0),
                      !["user_X"] = PyInt(0),
                      !["user_Y"] = PyInt(0),
                      !["user_Z"] = PyInt(0)] :
        x \in {PyAbsent, PyNone, PyNaN, PyStr("x"), PyInt(0), PyInt(3)},
        y \in {PyInt(0), PyInt(4)}}

\* Hurt rows: hitgroup and health are missing, None, NaN, a name or a number.
HurtRows ==
    {[EmptyRow EXCEPT !["tick"] = PyInt(1),
                      !["user_steamid"] = PyStr("222"),
                      !["hitgroup"] = hg,
                      !["health"] = hp] :
        hg \in {PyAbsent, PyNone, PyNaN, PyStr("head"), PyInt(1), PyInt(9)},
        hp \in {PyAbsent, PyNone, PyNaN, PyInt(0), PyInt(50)}}

\* Round-end rows: the reason is missing, None, a name or a code.
RoundEndRows ==
    {[EmptyRow EXCEPT !["tick"] = PyInt(1),
                      !["reason"] = rs,
                      !["winner"] = w] :
        rs \in {PyAbsent, PyNone, PyStr("ct_killed"), PyInt(7), PyInt(3)},
        w \in {PyAbsent, PyInt(TEAM_T), PyInt(TEAM_CT), PyStr("CT")}}

BlindRow == [EmptyRow EXCEPT !["tick"] = PyInt(0), !["user_steamid"] = PyStr("222")]

\* One table of one event type, followed by the player_blind table, which is
\* missing or holds one earlier row.
EventTables(event_name, tbl_rows, blind_missing) ==
    [n \in EventNames |->
        IF n = event_name THEN [missing |-> FALSE, rows |-> tbl_rows]
        ELSE IF n = "player_blind"
        THEN [missing |-> blind_missing,
              rows |-> IF blind_missing THEN <<>> ELSE <<BlindRow>>]
        ELSE NoTable]

InitKills ==
    /\ event_names = <<"player_death", "player_blind">>
    /\ \E row \in KillRows : event_df = EventTables("player_death", <<row>>, FALSE)
InitCoords ==
    /\ event_names = <<"player_death", "player_blind">>
    /\ \E tbl_rows \in SeqsUpTo(CoordRows, MaxEvRows) :
           event_df = EventTables("player_death", tbl_rows, FALSE)
InitHurts ==
    /\ event_names = <<"player_hurt", "player_blind">>
    /\ \E tbl_rows \in SeqsUpTo(HurtRows, MaxEvRows), blind_missing \in BOOLEAN :
           event_df = EventTables("player_hurt", tbl_rows, blind_missing)
InitRoundEnds ==
    /\ event_names = <<"round_end", "player_blind">>
    /\ \E tbl_rows \in SeqsUpTo(RoundEndRows, MaxEvRows) :
           event_df = EventTables("round_end", tbl_rows, FALSE)

InitEvents ==
    /\ EventsEntry
    /\ InitKills \/ InitCoords \/ InitHurts \/ InitRoundEnds
    /\ IdleRounds /\ IdleFlash /\ IdleHe /\ IdleAll /\ IdleMatrix /\ IdleStream
    /\ IdleWriter /\ IdleParse /\ IdleJobs

SpecEvents == InitEvents /\ [][EventsNext]_vars

\* Hurt rows for the damage matrix: the attacker is missing, None (damage by
\* the world), "", "0" or a player; the victim is missing or a player.
MatrixRows ==
    [{"attacker_steamid"} ->
         {PyAbsent, PyNone, PyStr(""), PyStr("0"), PyStr("111")}]
    \X [{"user_steamid"} -> {PyAbsent, PyStr("111"), PyStr("222")}]
    \X [{"dmg_health"} -> {PyInt(1), PyInt(2)}]
HurtRowOf(t) == t[1] @@ t[2] @@ t[3]

InitMatrix ==
    /\ mpc = "start" /\ mi = 1 /\ damage_matrix = <<>>
    /\ player_hurt_missing \in BOOLEAN
    /\ \E ts \in SeqsUpTo(MatrixRows, MaxMatrixRows) :
           /\ player_hurt_missing => ts = <<>>
           /\ player_hurt_df = [k \in 1 .. Len(ts) |-> HurtRowOf(ts[k])]
    /\ IdleRounds /\ IdleFlash /\ IdleHe /\ IdleAll /\ IdleEvents /\ IdleStream
    /\ IdleWriter /\ IdleParse /\ IdleJobs

SpecMatrix == InitMatrix /\ [][MatrixNext]_vars

\* A demo with 0 .. MaxTotalTicks tick records, numbered in table order, and
\* every chunk size from 1.
InitStream ==
    /\ spc = "start" /\ all_ticks = <<>> /\ num_chunks = 0 /\ ti = 0
    /\ emitted = <<>>
    /\ gen = "running" /\ tmp_exists = TRUE /\ queries = <<>>
    /\ demo_exists \in BOOLEAN
    /\ chat_present \in BOOLEAN
    /\ ticks_raise \in BOOLEAN
    /\ \E total \in 0 .. MaxTotalTicks : tick_rows = [k \in 1 .. total |-> k]
    /\ chunk_size \in 1 .. MaxChunkSize
    /\ IdleRounds /\ IdleFlash /\ IdleHe /\ IdleAll /\ IdleEvents /\ IdleMatrix
    /\ IdleWriter /\ IdleParse /\ IdleJobs

SpecStream == InitStream /\ [][StreamNext]_vars

\* Lines 54-72: a new NDJSONWriter has opened its file and written nothing.
\* Lines 159-166: a new JSONWriter has an empty buffer and no file yet.
InitWriter ==
    /\ \/ wpc = "open" /\ file_open = TRUE
       \/ wpc = "json" /\ file_open = FALSE
    /\ file_lines = <<>> /\ streamed = <<>>
    /\ writes = 0 /\ writer_raised = FALSE
    /\ json_chunks = <<>> /\ json_file = NoFile /\ json_calls = <<>>
    /\ IdleRounds /\ IdleFlash /\ IdleHe /\ IdleAll /\ IdleEvents /\ IdleMatrix
    /\ IdleStream /\ IdleParse /\ IdleJobs

SpecWriter == InitWriter /\ [][WriterNext]_vars

\* A demo whose file exists or not and whose queries all return rows, but for
\* at most MaxFailures of them, which return an empty table or raise.
InitParse ==
    /\ ppc = "metadata" /\ parsed = NoParsedDemo
    /\ \E exists \in BOOLEAN, outcome \in [ParseQueries -> Outcomes] :
           /\ Cardinality({q \in ParseQueries : outcome[q] # "rows"}) <= MaxFailures
           /\ demo = [exists |-> exists, outcome |-> outcome]
    /\ IdleRounds /\ IdleFlash /\ IdleHe /\ IdleAll /\ IdleEvents /\ IdleMatrix
    /\ IdleStream /\ IdleWriter /\ IdleJobs

SpecParse == InitParse /\ [][ParseNext]_vars

\* Line 50: the service starts with parse_jobs = {} and no task.
InitJobs ==
    /\ parse_jobs = <<>>
    /\ background = [pending |-> <<>>, running |-> NoJob, requests |-> 0]
    /\ IdleRounds /\ IdleFlash /\ IdleHe /\ IdleAll /\ IdleEvents /\ IdleMatrix
    /\ IdleStream /\ IdleWriter /\ IdleParse

SpecJobs == InitJobs /\ [][JobsNext]_vars

Init ==
    InitRounds \/ InitBomb \/ InitGrenades \/ InitLinkers \/ InitAll \/ InitEvents \/ InitMatrix
    \/ InitStream \/ InitWriter \/ InitParse \/ InitJobs
Next ==
    RoundsNext \/ GrenadesNext \/ FlashEffectiveness \/ AllNext \/ EventsNext \/ MatrixNext
    \/ StreamNext \/ WriterNext \/ ParseNext \/ JobsNext
Spec == Init /\ [][Next]_vars

(* ====================================================================== *)
(*                               properties                                *)
(* ====================================================================== *)

Range(f) == {f[k] : k \in DOMAIN f}

\* The positions of the round_end rows later than tick t.
EndsAfter(t) == {e \in 1 .. Len(round_ends) : round_ends[e].tick > t}

\* C1: every returned round has start_tick < end_tick, and round_number is
\* strictly increasing along the returned list.
C1_RoundsOrdered ==
    \A k \in 1 .. Len(rounds) :
        /\ rounds[k].start_tick < rounds[k].end_tick
        /\ k < Len(rounds) => rounds[k].round_number < rounds[k + 1].round_number

\* C2: when every round up to and including position k was won by T or CT,
\* the k-th round has ct_score + t_score = k.
C2_ScoreSumIsIndex ==
    \A k \in 1 .. Len(rounds) :
        (\A j \in 1 .. k : rounds[j].winner_team \in {TEAM_T, TEAM_CT})
            => rounds[k].ct_score + rounds[k].t_score = k

C2_Witness ==
    /\ rpc = "done"
    /\ Len(rounds) = 2
    /\ \A j \in 1 .. 2 : rounds[j].winner_team \in {TEAM_T, TEAM_CT}
    /\ rounds[1].winner_team # rounds[2].winner_team
    /\ rounds[2].ct_score + rounds[2].t_score = 2

\* C3: the winner string of the round's end row decides winner_team ("CT" is
\* 3, "T" is 2, anything else 0), and each round's ct_score (t_score) is the
\* number of rounds up to and including it won by CT (T); the running
\* counters are those of the last round.
C3_RunningCounters ==
    /\ \A k \in 1 .. Len(rounds) :
          LET r == rounds[k]
              w == round_ends[Min(EndsAfter(r.start_tick))].winner
          IN  /\ w = "CT" => r.winner_team = 3
              /\ w = "T" => r.winner_team = 2
              /\ w \notin {"CT", "T"} => r.winner_team = 0
              /\ r.ct_score =
                    Cardinality({j \in 1 .. k : rounds[j].winner_team = 3})
              /\ r.t_score =
                    Cardinality({j \in 1 .. k : rounds[j].winner_team = 2})
    /\ ct_score = Cardinality({j \in 1 .. Len(rounds) : rounds[j].winner_team = 3})
    /\ t_score = Cardinality({j \in 1 .. Len(rounds) : rounds[j].winner_team = 2})

\* Two rounds, won by "T" then "CT": 0:1 after round 1, 1:1 after round 2.
C3_Witness ==
    /\ rpc = "done"
    /\ Len(rounds) = 2
    /\ rounds[1].winner_team = 2 /\ rounds[1].t_score = 1 /\ rounds[1].ct_score = 0
    /\ rounds[2].winner_team = 3 /\ rounds[2].t_score = 1 /\ rounds[2].ct_score = 1

\* C4: the iteration for a start row pairs it with the first round_end row,
\* in input order, whose tick is greater than the start tick; when there is
\* none it appends nothing and the loop goes on to the next start row.
C4_FirstLaterEnd ==
    [][(rpc = "loop" /\ ri <= Len(round_starts) /\ round_starts[ri].tick # NA)
        => LET s == round_starts[ri].tick
           IN  /\ ri' = ri + 1
               /\ rpc' = "loop"
               /\ IF EndsAfter(s) = {}
                  THEN rounds' = rounds
                  ELSE /\ Len(rounds') = Len(rounds) + 1
                       /\ SubSeq(rounds', 1, Len(rounds)) = rounds
                       /\ rounds'[Len(rounds')].start_tick = s
                       /\ rounds'[Len(rounds')].end_tick =
                              round_ends[Min(EndsAfter(s))].tick]_vars

\* The first start row has no later end and is dropped; the second one is
\* paired with the first later end in input order, not the one of least tick.
C4_Witness ==
    /\ rpc = "done"
    /\ Len(round_starts) = 2
    /\ Len(round_ends) = 2
    /\ round_starts[1].tick # NA
    /\ EndsAfter(round_starts[1].tick) = {}
    /\ Len(rounds) = 1
    /\ rounds[1].start_tick = round_starts[2].tick
    /\ rounds[1].end_tick = round_ends[1].tick
    /\ round_ends[2].tick > rounds[1].start_tick
    /\ round_ends[2].tick < round_ends[1].tick

\* C5: a start row without a tick is skipped and does not abort the
\* reconstruction: once it has returned, every start row that has a tick and a
\* later end has its round in the result.
C5_MalformedRowSkipped ==
    rpc = "done" =>
        \A a \in 1 .. Len(round_starts) :
            (round_starts[a].tick # NA /\ EndsAfter(round_starts[a].tick) # {})
                => \E k \in 1 .. Len(rounds) :
                      rounds[k].start_tick = round_starts[a].tick

\* C6 as stated: is_pistol_round iff round_number mod roundsPerHalf = 1, with
\* roundsPerHalf = 12.
C6_PistolModHalf ==
    \A k \in 1 .. Len(rounds) :
        rounds[k].is_pistol_round <=> (rounds[k].round_number % 12 = 1)

\* C6 as amended: is_pistol_round iff round_number is 1 or 13, which is
\* round_number mod 12 = 1 for the 24 rounds of regulation only.
C6_PistolFirstOfHalf ==
    \A k \in 1 .. Len(rounds) :
        LET n == rounds[k].round_number
        IN  /\ rounds[k].is_pistol_round <=> (n = 1 \/ n = 13)
            /\ n \in 1 .. 24 => (rounds[k].is_pistol_round <=> (n % 12 = 1))

\* Round 13 is a pistol round, round 25 is not.
C6_Witness ==
    /\ rpc = "done"
    /\ Len(rounds) = 2
    /\ rounds[1].round_number = 13 /\ rounds[1].is_pistol_round
    /\ rounds[2].round_number = 25 /\ ~rounds[2].is_pistol_round

\* C7: bomb_planted iff a plant row has start_tick < tick <= end_tick;
\* bomb_plant_tick and bomb_site come from the first such row ("A" for the
\* numeric code 111, "B" for any other number); bomb_defused and
\* bomb_exploded iff a defuse / explosion row is in the same range.
C7_BombInRound ==
    \A k \in 1 .. Len(rounds) :
        LET r == rounds[k]
            In(tbl) == {p \in 1 .. Len(tbl) :
                          r.start_tick < tbl[p].tick /\ tbl[p].tick <= r.end_tick}
            P == In(bomb_plants)
        IN  /\ r.bomb_planted <=> P # {}
            /\ P # {} =>
                  LET first == bomb_plants[Min(P)]
                  IN  /\ r.bomb_plant_tick = first.tick
                      /\ first.site.num =>
                            r.bomb_site = IF first.site.code = 111 THEN "A" ELSE "B"
            /\ r.bomb_defused <=> In(bomb_defuses) # {}
            /\ r.bomb_exploded <=> In(bomb_explosions) # {}

\* A plant at start_tick is left out and a later one at end_tick is taken,
\* with a site code that is neither 111 nor 112; a defuse at end_tick counts,
\* an explosion at start_tick does not.
C7_Witness ==
    /\ rpc = "done"
    /\ Len(rounds) = 1
    /\ Len(bomb_plants) = 2
    /\ bomb_plants[1].tick = rounds[1].start_tick
    /\ bomb_plants[2].tick = rounds[1].end_tick
    /\ bomb_plants[2].site.num /\ bomb_plants[2].site.code = 0
    /\ rounds[1].bomb_planted
    /\ rounds[1].bomb_plant_tick = rounds[1].end_tick
    /\ rounds[1].bomb_site = "B"
    /\ Len(bomb_defuses) = 1 /\ bomb_defuses[1].tick = rounds[1].end_tick
    /\ rounds[1].bomb_defused
    /\ Len(bomb_explosions) = 1 /\ bomb_explosions[1].tick = rounds[1].start_tick
    /\ ~rounds[1].bomb_exploded

\* The detonation uses the temporal window (no usable entity id).
WindowLinked(d) ==
    ~(blind_has_entity /\ Len(blind_df) > 0 /\ detonate_df[d].entityid # 0)

\* C8: when the blind rows carry entity ids and the detonation's id is not
\* zero, the blind rows attributed to the detonation are exactly those with
\* its entity id, whatever their tick; none with another id is attributed.
C8_EntityIdFirst ==
    \A f \in 1 .. Len(flashes) :
        (blind_has_entity /\ detonate_df[f].entityid # 0) =>
            /\ \A b \in 1 .. Len(blind_df) :
                  b \in Range(flashes[f].matching_blinds)
                      <=> blind_df[b].attacker_entity_id = detonate_df[f].entityid
            /\ Len(flashes[f].players_blinded) = Len(flashes[f].matching_blinds)

\* Two detonations one tick apart with different ids; the blind row of the
\* first is outside its window and still attributed to it, the blind row of
\* the second is inside both windows and attributed to the second only.
C8_Witness ==
    /\ fpc = "done"
    /\ blind_has_entity
    /\ Len(flashes) = 2 /\ Len(blind_df) = 2
    /\ detonate_df[1].entityid # 0 /\ detonate_df[2].entityid # 0
    /\ detonate_df[1].entityid # detonate_df[2].entityid
    /\ detonate_df[1].tick + 1 = detonate_df[2].tick
    /\ blind_df[1].attacker_entity_id = detonate_df[1].entityid
    /\ blind_df[1].tick > detonate_df[1].tick + FLASH_WINDOW
    /\ blind_df[2].attacker_entity_id = detonate_df[2].entityid
    /\ blind_df[2].tick = detonate_df[2].tick + FLASH_WINDOW - 1
    /\ flashes[1].matching_blinds = <<1>>
    /\ flashes[2].matching_blinds = <<2>>

\* C9: under window linking no effect row is in the effect lists of two
\* detonations (flashbang blinds, HE hurt rows).
C9_NoDoubleAttribution ==
    /\ \A f, g \in 1 .. Len(flashes) :
          (f < g /\ WindowLinked(f) /\ WindowLinked(g)) =>
              Range(flashes[f].matching_blinds)
                  \cap Range(flashes[g].matching_blinds) = {}
    /\ \A f, g \in 1 .. Len(he_grenades) :
          f < g =>
              Range(he_grenades[f].nearby_damage)
                  \cap Range(he_grenades[g].nearby_damage) = {}

C11_TeamZeroUncounted ==
    \A f \in 1 .. Len(flashes) :
        LET fl == flashes[f]
            victims == [k \in 1 .. Len(fl.matching_blinds) |->
                           blind_df[fl.matching_blinds[k]].user_team]
            n == Len(victims)
        IN  /\ fl.enemies_blinded =
                  Cardinality({k \in 1 .. n : victims[k] # fl.thrower_team
                                               /\ victims[k] # 0})
            /\ fl.enemies_blinded + fl.teammates_blinded =
                  Cardinality({k \in 1 .. n : victims[k] # 0})

GrenadeSources ==
    {"throws", "smokes", "flashbangs", "he_grenades", "molotovs", "decoys"}
\* What the six extractions return, one after the other, before the sort.
Extracted ==
    ExtractGrenadeThrows(event_tables).events \o ExtractSmokes(event_tables).events
    \o ExtractFlashbangs(event_tables).events
    \o ExtractHeGrenades(event_tables).events
    \o ExtractMolotovs(event_tables).events \o ExtractDecoys(event_tables).events
OfSource(lst, src) == {lst[k] : k \in {j \in 1 .. Len(lst) : lst[j].src = src}}

\* C12: each grenade-type extraction is isolated: when the extraction of one
\* type fails (a table is missing or a row does not decode), the returned list
\* holds no event of that type and exactly the events of every other type.
C12_FailedTypeEmpty ==
    apc = "done" =>
        /\ \A src \in failed : OfSource(grenades, src) = {}
        /\ \A src \in GrenadeSources \ failed :
               OfSource(grenades, src) = OfSource(Extracted, src)

\* The place of a table in the order the lists are concatenated in.
InputOrder(table) ==
    CASE table = "weapon_fire" -> 1
      [] table = "smokegrenade_detonate" -> 2
      [] table = "smokegrenade_expired" -> 3
      [] table = "flashbang_detonate" -> 4
      [] table = "hegrenade_detonate" -> 5
      [] table = "molotov_detonate" -> 6
      [] table = "inferno_startburn" -> 7
      [] table = "inferno_expire" -> 8
      [] table = "decoy_started" -> 9
      [] OTHER -> 10
Before(e1, e2) ==
    \/ InputOrder(e1.table) < InputOrder(e2.table)
    \/ e1.table = e2.table /\ e1.row < e2.row

\* C13: the returned list is sorted by tick ascending, events of equal tick
\* keep their input order (throws, smokes, flashbangs, HE grenades,
\* molotovs/infernos, decoys, each in row order), and the list is a
\* permutation of the extracted events.
C13_StableByTick ==
    apc = "done" =>
        /\ \A i, j \in 1 .. Len(grenades) :
               i < j => /\ grenades[i].tick <= grenades[j].tick
                        /\ grenades[i].tick = grenades[j].tick
                               => Before(grenades[i], grenades[j])
        /\ Len(grenades) = Len(Extracted)
        /\ Range(grenades) = Range(Extracted)
        /\ Cardinality(Range(Extracted)) = Len(Extracted)

\* C13 witness: the sort has moved an event in front of an earlier input and
\* has kept a tie between two tables and a tie inside one table.
C13_Witness ==
    /\ apc = "done"
    /\ \E i, j \in 1 .. Len(grenades) :
           i < j /\ Before(grenades[j], grenades[i])
    /\ \E i, j \in 1 .. Len(grenades) :
           /\ i < j /\ grenades[i].tick = grenades[j].tick
           /\ grenades[i].table # grenades[j].table
    /\ \E i, j \in 1 .. Len(grenades) :
           /\ i < j /\ grenades[i].tick = grenades[j].tick
           /\ grenades[i].table = grenades[j].table

\* The raw row an event of the list was made from.
RawRow(e) == event_df[e.name].rows[e.row]
\* The victim id of a kill row: user_steamid, or victim_steamid without it.
VictimId(row) ==
    IF Has(row, "user_steamid") /\ row["user_steamid"] # PyNone
    THEN row["user_steamid"] ELSE Get(row, "victim_steamid")
KillEvents == {e \in Range(events) : e.name = "player_death"}

\* C14: for every kill row, is_suicide is true whenever the attacker id is
\* absent, is "0" or equals the victim id; is_teamkill is false whenever
\* is_suicide is true; and is_teamkill is true only when the attacker team and
\* the victim team are both present and equal.
C14_SuicideAndTeamkill ==
    \A e \in KillEvents :
        LET row == RawRow(e)
            attacker_id == Get(row, "attacker_steamid")
        IN  /\ (attacker_id = PyNone \/ attacker_id = PyStr("0")
                    \/ attacker_id = VictimId(row))
                   => e.data["is_suicide"] = PyBool(TRUE)
            /\ e.data["is_suicide"] = PyBool(TRUE)
                   => e.data["is_teamkill"] = PyBool(FALSE)
            /\ e.data["is_teamkill"] = PyBool(TRUE)
                   => /\ Get(row, "attacker_team") # PyNone
                      /\ \E key \in {"user_team", "victim_team"} :
                             /\ Get(row, key) # PyNone
                             /\ row[key] = row["attacker_team"]

\* C14 witness: a kill by attacker "0" on the attacker's own team is a suicide
\* and not a team kill.
C14_Witness ==
    \E e \in KillEvents :
        /\ RawRow(e)["attacker_steamid"] = PyStr("0")
        /\ RawRow(e)["user_steamid"] = PyStr("111")
        /\ RawRow(e)["attacker_team"] = PyInt(TEAM_T)
        /\ RawRow(e)["user_team"] = PyInt(TEAM_T)
        /\ e.data["is_suicide"] = PyBool(TRUE)
        /\ e.data["is_teamkill"] = PyBool(FALSE)

\* C15: enriching a kill, hurt or round-end row never raises: a field that is
\* missing or cannot be parsed only leaves its computed field out, and every
\* row of the event type is enriched and returned by the extraction.
C15_EnrichNeverRaises ==
    epc = "done" =>
        \A name \in {"player_death", "player_hurt", "round_end"} :
            /\ name \notin extraction_failed
            /\ \A k \in 1 .. Len(event_df[name].rows) :
                   \E e \in Range(events) : e.name = name /\ e.row = k

\* C16: enrich(eventName, row) does not change the row it is given (after the
\* call the row has the fields and values it had before) and returns a new
\* record.
C16_EnrichIsPure ==
    enrich_call.made =>
        /\ enrich_call.arg_after = enrich_call.arg
        /\ ~enrich_call.result_is_arg

\* The sum of the values of a function with a finite domain.
RECURSIVE SumFn(_)
SumFn(f) ==
    IF DOMAIN f = {} THEN 0
    ELSE LET x == CHOOSE x \in DOMAIN f : TRUE
         IN  f[x] + SumFn([y \in DOMAIN f \ {x} |-> f[y]])
MatrixTotal == SumFn([a \in DOMAIN damage_matrix |-> SumFn(damage_matrix[a])])
AttackerOf(k) == StrOrEmpty(player_hurt_df[k], "attacker_steamid")
VictimOf(k) == StrOrEmpty(player_hurt_df[k], "user_steamid")
DamageOfRows(S) == SumFn([k \in S |-> player_hurt_df[k]["dmg_health"].n])
AttackerRows == {k \in 1 .. Len(player_hurt_df) : AttackerOf(k) \notin {"", "0"}}
EntriesAreSums ==
    /\ \A a \in DOMAIN damage_matrix : \A v \in DOMAIN damage_matrix[a] :
           damage_matrix[a][v] =
               DamageOfRows({k \in AttackerRows : AttackerOf(k) = a /\ VictimOf(k) = v})
    /\ "0" \notin DOMAIN damage_matrix
    /\ "" \notin DOMAIN damage_matrix

TypeRank(chunk_type) ==
    CASE chunk_type = "metadata" -> 1 [] chunk_type = "players" -> 2
      [] chunk_type = "rounds" -> 3 [] chunk_type = "events" -> 4
      [] chunk_type = "ticks" -> 5 [] chunk_type = "grenades" -> 6
      [] OTHER -> 7
ChunksOfType(chunk_type) == SelectSeq(emitted, LAMBDA c : c.chunk_type = chunk_type)

\* C18: parse_streaming emits metadata, players, rounds, events, the tick
\* chunks and grenades in this order: no chunk of an earlier type follows a
\* chunk of a later type, each type but ticks is emitted exactly once with
\* chunk_index 0, and when the demo has chat messages a chat chunk comes last.
C18_ChunkOrder ==
    /\ \A i, j \in 1 .. Len(emitted) :
           i < j => TypeRank(emitted[i].chunk_type) <= TypeRank(emitted[j].chunk_type)
    /\ spc = "end" =>
           /\ \A t \in {"metadata", "players", "rounds", "events", "grenades"} :
                  /\ Len(ChunksOfType(t)) = 1
                  /\ ChunksOfType(t)[1].chunk_index = 0
           /\ chat_present => emitted[Len(emitted)].chunk_type = "chat"

\* ceil(a / b), from its definition.
CeilDiv(a, b) == CHOOSE n \in 0 .. a : n * b >= a /\ (n = 0 \/ (n - 1) * b < a)
RECURSIVE Flatten(_)
Flatten(chunks) ==
    IF chunks = <<>> THEN <<>> ELSE chunks[1].data \o Flatten(Tail(chunks))

\* C19: for every number of tick records and every chunk size from 1, the tick
\* chunks have chunk_index 0, 1, ..., N-1 in this order, each carries
\* total_chunks = N = ceil(totalTicks / chunkSize), every chunk but the last
\* holds chunkSize records, the last holds totalTicks - (N-1)*chunkSize, and
\* the chunks put together in index order are the tick table.
C19_TickChunks ==
    spc = "end" =>
        LET tick_chunks == ChunksOfType("ticks")
            n == Len(tick_chunks)
            total_ticks == Len(all_ticks)
        IN  /\ n = CeilDiv(total_ticks, chunk_size)
            /\ \A k \in 1 .. n :
                   /\ tick_chunks[k].chunk_index = k - 1
                   /\ tick_chunks[k].total_chunks = n
                   /\ Len(tick_chunks[k].data) =
                          IF k < n THEN chunk_size
                          ELSE total_ticks - (n - 1) * chunk_size
            /\ Flatten(tick_chunks) = all_ticks
            /\ ~ticks_raise => all_ticks = tick_rows

\* C19 witness: several tick chunks, the last one shorter than the chunk size.
C19_Witness ==
    /\ spc = "end"
    /\ Len(ChunksOfType("ticks")) > 2
    /\ Len(emitted[Len(emitted) - 1].data) > 0
    /\ Len(emitted[Len(emitted) - 1].data) < chunk_size

\* C20: every line the incremental (NDJSON) writer emits, through write_chunk,
\* through write_complete or through stream_to_bytes, is one object with the
\* fields chunk_type, chunk_index, total_chunks and data.
C20_SelfDescribingLines ==
    \A line \in Range(file_lines) \cup Range(streamed) :
        line.keys = {"chunk_type", "chunk_index", "total_chunks", "data"}

LastCall == IF json_calls = <<>> THEN "" ELSE json_calls[Len(json_calls)].op

\* C21: for both writers finalize releases the sink once: the first finalize
\* of an NDJSONWriter closes the file and writes nothing, and a finalize that
\* follows a finalize (on a closed NDJSON file, or right after a JSONWriter
\* finalize) writes nothing, closes nothing, raises nothing and leaves the
\* output as it was.
C21_SecondFinalizeNoOp ==
    [][/\ (NdjsonFinalize /\ file_open) =>
              (~file_open' /\ UNCHANGED <<file_lines, writer_raised>>)
       /\ (NdjsonFinalize /\ ~file_open) =>
              UNCHANGED <<file_open, file_lines, writer_raised>>
       /\ (JsonFinalize /\ LastCall = "finalize") =>
              UNCHANGED <<json_file, json_chunks>>]_vars
C21_Witness ==
    /\ Len(json_calls) = 3
    /\ json_calls[1].op = "write_chunk"
    /\ json_calls[2].op = "finalize" /\ json_calls[3].op = "finalize"
    /\ json_file.exists /\ json_file.written = 1
    /\ "ticks" \in DOMAIN json_file.doc

\* C22: every document the JSONWriter leaves in its file, written by
\* write_complete or assembled by finalize, has the top-level keys metadata,
\* players, rounds, events, ticks, grenades and chat_messages.
C22_FullDocumentKeys ==
    json_file.exists => DOMAIN json_file.doc = DocKeys

CompleteCalls == {k \in 1 .. Len(json_calls) : json_calls[k].op = "write_complete"}

\* C27: after write_complete has written a document, the file holds the
\* document of the last write_complete, whatever finalize and write_chunk
\* calls were made before or after it.
C27_CompleteSurvivesFinalize ==
    CompleteCalls # {} =>
        json_file.doc =
            json_calls[CHOOSE k \in CompleteCalls : \A m \in CompleteCalls : m <= k].doc

\* C29: on an NDJSONWriter whose file finalize has closed, write_chunk and
\* write_complete raise and append nothing; on an open one write_chunk appends
\* exactly one line after the lines already written and raises nothing.
C29_WriteAfterFinalizeFails ==
    [][/\ ((NdjsonWriteChunk \/ NdjsonWriteComplete) /\ ~file_open) =>
              (writer_raised' /\ UNCHANGED file_lines)
       /\ (NdjsonWriteChunk /\ file_open) =>
              /\ Len(file_lines') = Len(file_lines) + 1
              /\ SubSeq(file_lines', 1, Len(file_lines)) = file_lines
              /\ file_lines'[Len(file_lines')].keys =
                     {"chunk_type", "chunk_index", "total_chunks", "data"}
              /\ UNCHANGED writer_raised]_vars
C29_Witness ==
    /\ wpc = "open" /\ ~file_open /\ writer_raised
    /\ writes = 2 /\ file_lines = <<>>

\* C23: once the consumer has cancelled, which it does only while the
\* producer is suspended at a yield, no further extraction queries the row
\* source, no further chunk is produced, and the temporary file of the stream
\* is gone.
C23_CancelStopsQueries ==
    [][/\ (gen = "closed") => UNCHANGED <<queries, emitted, spc>>
       /\ (gen' = "closed") => ~tmp_exists'
       /\ (gen # "closed" /\ gen' = "closed") =>
              (gen = "suspended" \/ spc' \in {"end", "raised"})]_vars
C23_Witness ==
    /\ gen = "closed" /\ ~tmp_exists
    /\ spc = "tick_loop" /\ ti = 1 /\ num_chunks = 2
    /\ queries = <<"metadata", "players", "rounds", "events", "ticks">>

\* What each category of the document holds when only the queries of that
\* category can fail or come back empty.
ExpectedDocument ==
    [metadata |-> ExtractMetadata(demo.outcome),
     players |-> ExtractList(demo.outcome, "players"),
     rounds |-> ExtractRounds(demo.outcome),
     events |-> ExtractList(demo.outcome, "events"),
     ticks |-> ExtractList(demo.outcome, "ticks"),
     grenades |-> ExtractList(demo.outcome, "grenades"),
     chat_messages |-> ExtractList(demo.outcome, "chat")]

\* C24: when the demo file exists, parse() never raises whatever one query of
\* the row source does, and the document it returns holds, category by
\* category, what the queries of that category alone give.
C24_CategoryFailureIsolated ==
    demo.exists =>
        /\ ppc # "raised"
        /\ ppc = "done" => parsed = ExpectedDocument

\* C26: no two rounds of the returned list have the same end_tick: a
\* round_end row is paired with at most one round_start row.
C26_EndPairedOnce ==
    \A i, j \in 1 .. Len(rounds) :
        i # j => rounds[i].end_tick # rounds[j].end_tick

\* The grenades of one type in the match: one per detonation row; a decoy is
\* reported by a decoy_started row, by a decoy_detonate row or by both (the
\* k-th row of each table reports the k-th decoy).
DetonateTable(type) ==
    CASE type = "smoke" -> "smokegrenade_detonate"
      [] type = "flashbang" -> "flashbang_detonate"
      [] type = "hegrenade" -> "hegrenade_detonate"
      [] OTHER -> "molotov_detonate"
DistinctGrenades(type) ==
    IF type = "decoy"
    THEN LET started == Len(event_tables["decoy_started"].rows)
             detonated == Len(event_tables["decoy_detonate"].rows)
         IN  IF started < detonated THEN detonated ELSE started
    ELSE Len(event_tables[DetonateTable(type)].rows)
CountOf(type) ==
    IF type \in DOMAIN summary.by_type THEN summary.by_type[type] ELSE 0

\* C25: when no extraction failed, the summary counts each grenade once:
\* by_type holds, for every type, the number of distinct grenades of that type
\* (no entry for a type without grenades), and total_grenades is their sum.
C25_EachGrenadeCountedOnce ==
    (apc = "summarised" /\ failed = {}) =>
        /\ \A type \in {"smoke", "flashbang", "hegrenade", "molotov", "decoy"} :
               CountOf(type) = DistinctGrenades(type)
        /\ summary.total_grenades = SumFn(summary.by_type)

StatusMoves ==
    {<<"queued", "parsing">>, <<"parsing", "complete">>, <<"parsing", "error">>}

\* C28: a job of parse_jobs stays in it; its status moves only from queued to
\* parsing and from parsing to complete or error; a complete or failed job
\* changes no more; progress_percent never decreases.
C28_StatusOnlyAdvances ==
    [][\A job_id \in DOMAIN parse_jobs :
           /\ job_id \in DOMAIN parse_jobs'
           /\ \/ parse_jobs'[job_id].status = parse_jobs[job_id].status
              \/ <<parse_jobs[job_id].status, parse_jobs'[job_id].status>>
                     \in StatusMoves
           /\ parse_jobs[job_id].status \in {"complete", "error"} =>
                  parse_jobs'[job_id] = parse_jobs[job_id]
           /\ parse_jobs'[job_id].progress_percent
                  >= parse_jobs[job_id].progress_percent]_vars

\* C30: on the same tables without entity ids the two flash linkers report,
\* for every flashbang_detonate row, the same blinded victims, the same
\* is_enemy flag for each victim and the same enemies_blinded and
\* teammates_blinded counts, victims of team 0 included.
C30_LinkersAgree ==
    fpc = "both" =>
        /\ Len(flash_data) = Len(flashes)
        /\ \A f \in 1 .. Len(flashes) :
               /\ flash_data[f].nearby_blinds = flashes[f].matching_blinds
               /\ \A k \in 1 .. Len(flashes[f].players_blinded) :
                      flash_data[f].players_blinded[k].is_enemy
                          = flashes[f].players_blinded[k].is_enemy
               /\ flash_data[f].enemies_blinded = flashes[f].enemies_blinded
               /\ flash_data[f].teammates_blinded
                      = flashes[f].teammates_blinded
====
